---------------------------- MODULE Spec2Model ----------------------------
(***************************************************************************)
(* Model of the multi-game leaderboard: command parser and rank ordering   *)
(* (src/src/parser.js), message-as-database codec and merge                *)
(* (src/storage.js) and the sync cycle (src/sync.js).                      *)
(*                                                                         *)
(* Text.  A JavaScript string is a TLA+ string; TLC evaluates Len, \o,      *)
(* SubSeq, Head and Tail on strings, so splitting, trimming, joining,      *)
(* parseInt, toLowerCase and the regular expressions of the source are     *)
(* computed character by character.                                        *)
(***************************************************************************)
EXTENDS Integers, Sequences, FiniteSets, TLC

VARIABLES call, ret, legacyDate, channel, published, syncLog

vars == <<call, ret, legacyDate, channel, published, syncLog>>

-----------------------------------------------------------------------------
(* JavaScript values *)

\* The number NaN (parseInt of text that starts with no digit).
NaN == -999999999

IsNaN(n) == n = NaN

\* null or undefined where the program expects an object.
Null == [null |-> TRUE]

\* null or undefined where the program expects a string.
NullStr == "#null#"

-----------------------------------------------------------------------------
(* String primitives *)

Digits == {"0", "1", "2", "3", "4", "5", "6", "7", "8", "9"}

DigitVal == ("0" :> 0) @@ ("1" :> 1) @@ ("2" :> 2) @@ ("3" :> 3) @@ ("4" :> 4)
         @@ ("5" :> 5) @@ ("6" :> 6) @@ ("7" :> 7) @@ ("8" :> 8) @@ ("9" :> 9)

DigitChar == <<"0", "1", "2", "3", "4", "5", "6", "7", "8", "9">>

Char(s, i) == IF i \in 1..Len(s) THEN SubSeq(s, i, i) ELSE ""

Drop(s, n) == SubSeq(s, n + 1, Len(s))

Take(s, n) == SubSeq(s, 1, n)

IsWs(c) == c \in {" ", "\n", "\t"}

\* l when it is a position, r otherwise.
OrElse(l, r) == IF l # 0 THEN l ELSE r

\* The first position in lo..hi where sub occurs in s; 0 when there is none.
\* (The search halves the range, so that its depth stays small on long text.)
RECURSIVE IndexBetween(_, _, _, _)
IndexBetween(s, sub, lo, hi) ==
  IF lo > hi THEN 0
  ELSE IF lo = hi THEN (IF SubSeq(s, lo, lo + Len(sub) - 1) = sub THEN lo ELSE 0)
  ELSE OrElse(IndexBetween(s, sub, lo, (lo + hi) \div 2),
              IndexBetween(s, sub, ((lo + hi) \div 2) + 1, hi))

\* String.prototype.indexOf(sub, from), 1-based; 0 when sub does not occur.
IndexFrom(s, sub, i) == IndexBetween(s, sub, i, Len(s) - Len(sub) + 1)

IndexOf(s, sub) == IndexFrom(s, sub, 1)

\* String.prototype.includes
Includes(s, sub) == IndexOf(s, sub) > 0

\* String.prototype.startsWith
StartsWith(s, sub) == Len(s) >= Len(sub) /\ Take(s, Len(sub)) = sub

\* The first position in lo..hi holding whitespace (ws = TRUE) or a
\* non-whitespace character (ws = FALSE); 0 when there is none.
RECURSIVE ScanBetween(_, _, _, _)
ScanBetween(s, ws, lo, hi) ==
  IF lo > hi THEN 0
  ELSE IF lo = hi THEN (IF IsWs(Char(s, lo)) = ws THEN lo ELSE 0)
  ELSE OrElse(ScanBetween(s, ws, lo, (lo + hi) \div 2),
              ScanBetween(s, ws, ((lo + hi) \div 2) + 1, hi))

\* First position at or after i holding whitespace (ws = TRUE) or a
\* non-whitespace character (ws = FALSE); Len(s) + 1 when there is none.
Scan(s, i, ws) == OrElse(ScanBetween(s, ws, i, Len(s)), Len(s) + 1)

\* The last position in lo..hi holding a non-whitespace character; 0 if none.
RECURSIVE ScanBackBetween(_, _, _)
ScanBackBetween(s, lo, hi) ==
  IF lo > hi THEN 0
  ELSE IF lo = hi THEN (IF ~IsWs(Char(s, lo)) THEN lo ELSE 0)
  ELSE OrElse(ScanBackBetween(s, ((lo + hi) \div 2) + 1, hi),
              ScanBackBetween(s, lo, (lo + hi) \div 2))

\* Last position at or before i holding a non-whitespace character; 0 if none.
ScanBack(s, i) == ScanBackBetween(s, 1, i)

\* String.prototype.trim
Trim(s) ==
  LET i == Scan(s, 1, FALSE)
  IN  IF i > Len(s) THEN "" ELSE SubSeq(s, i, ScanBack(s, Len(s)))

\* String.prototype.split(d) with a one-character separator d.
RECURSIVE SplitOn(_, _)
SplitOn(s, d) ==
  LET i == IndexOf(s, d)
  IN  IF i = 0 THEN <<s>> ELSE <<Take(s, i - 1)>> \o SplitOn(Drop(s, i), d)

\* String.prototype.split(/\s+/)
RECURSIVE SplitWs(_)
SplitWs(s) ==
  LET i == Scan(s, 1, TRUE)
      j == Scan(s, i, FALSE)
  IN  IF i > Len(s) THEN <<s>> ELSE <<Take(s, i - 1)>> \o SplitWs(Drop(s, j - 1))

\* Array.prototype.join(d)
RECURSIVE Join(_, _)
Join(parts, d) ==
  IF Len(parts) = 0 THEN ""
  ELSE IF Len(parts) = 1 THEN parts[1]
  ELSE parts[1] \o d \o Join(Tail(parts), d)

\* Array.prototype.slice(from) on a 1-based sequence: the elements after the
\* first n.
SliceFrom(parts, n) == SubSeq(parts, n + 1, Len(parts))

\* Length of the run of decimal digits of s that starts at position i.
RECURSIVE DigitRun(_, _)
DigitRun(s, i) ==
  IF i > Len(s) \/ Char(s, i) \notin Digits THEN 0 ELSE 1 + DigitRun(s, i + 1)

\* Value of a string of decimal digits.
RECURSIVE DigitsValue(_, _)
DigitsValue(s, acc) ==
  IF Len(s) = 0 THEN acc
  ELSE DigitsValue(Tail(s), acc * 10 + DigitVal[Head(s)])

\* parseInt(s, 10): leading whitespace skipped, an optional sign, then the
\* longest run of digits; NaN when there is no digit there.
ParseInt(s) ==
  LET i == Scan(s, 1, FALSE)
      signed == i <= Len(s) /\ Char(s, i) \in {"-", "+"}
      b == IF signed THEN i + 1 ELSE i
      n == DigitRun(s, b)
      v == DigitsValue(SubSeq(s, b, b + n - 1), 0)
  IN  IF n = 0 THEN NaN
      ELSE IF signed /\ Char(s, i) = "-" THEN 0 - v ELSE v

\* parseInt(parts[i], 10) of an array element that may be undefined.
ParseIntAt(parts, i) == IF i \in 1..Len(parts) THEN ParseInt(parts[i]) ELSE NaN

\* String(n) of a number.
RECURSIVE NatToStr(_)
NatToStr(n) ==
  IF n < 10 THEN DigitChar[n + 1]
  ELSE NatToStr(n \div 10) \o DigitChar[(n % 10) + 1]

NumToStr(n) ==
  IF IsNaN(n) THEN "NaN"
  ELSE IF n < 0 THEN "-" \o NatToStr(0 - n)
  ELSE NatToStr(n)

\* String.prototype.toLowerCase
LowerChar ==
     ("A" :> "a") @@ ("B" :> "b") @@ ("C" :> "c") @@ ("D" :> "d") @@ ("E" :> "e")
  @@ ("F" :> "f") @@ ("G" :> "g") @@ ("H" :> "h") @@ ("I" :> "i") @@ ("J" :> "j")
  @@ ("K" :> "k") @@ ("L" :> "l") @@ ("M" :> "m") @@ ("N" :> "n") @@ ("O" :> "o")
  @@ ("P" :> "p") @@ ("Q" :> "q") @@ ("R" :> "r") @@ ("S" :> "s") @@ ("T" :> "t")
  @@ ("U" :> "u") @@ ("V" :> "v") @@ ("W" :> "w") @@ ("X" :> "x") @@ ("Y" :> "y")
  @@ ("Z" :> "z")

RECURSIVE ToLowerCase(_)
ToLowerCase(s) ==
  IF Len(s) = 0 THEN ""
  ELSE (IF Head(s) \in DOMAIN LowerChar THEN LowerChar[Head(s)] ELSE Head(s))
       \o ToLowerCase(Tail(s))

-----------------------------------------------------------------------------
(* Dates: new Date(text), toISOString, getTime *)

\* The two-digit number at positions i, i + 1 of s, or NaN.
TwoDigits(s, i) ==
  IF DigitRun(s, i) >= 2 THEN DigitsValue(SubSeq(s, i, i + 1), 0) ELSE NaN

\* The calendar fields of a text of the ECMAScript date-time string format, in
\* the forms YYYY-MM-DD and YYYY-MM-DDTHH:mm:ss[.sss]Z; Null for any other
\* text.  Days 29 to 31 are left to the runtime's own parser, as the engines
\* differ on them.
IsoFields(s) ==
  LET y  == IF DigitRun(s, 1) = 4 THEN DigitsValue(Take(s, 4), 0) ELSE NaN
      m  == TwoDigits(s, 6)
      d  == TwoDigits(s, 9)
      hh == TwoDigits(s, 12)
      mi == TwoDigits(s, 15)
      ss == TwoDigits(s, 18)
      dateOk == /\ Len(s) >= 10
                /\ ~IsNaN(y) /\ Char(s, 5) = "-" /\ DigitRun(s, 6) = 2
                /\ Char(s, 8) = "-" /\ DigitRun(s, 9) = 2
                /\ m \in 1..12 /\ d \in 1..28
      timeOk == /\ Char(s, 11) = "T" /\ DigitRun(s, 12) = 2 /\ Char(s, 14) = ":"
                /\ DigitRun(s, 15) = 2 /\ Char(s, 17) = ":" /\ DigitRun(s, 18) = 2
                /\ hh \in 0..23 /\ mi \in 0..59 /\ ss \in 0..59
                /\ \/ Drop(s, 19) = "Z"
                   \/ Drop(s, 19) = ".000Z"
  IN  IF dateOk /\ Len(s) = 10
        THEN [y |-> y, m |-> m, d |-> d, hh |-> 0, mi |-> 0, ss |-> 0]
      ELSE IF dateOk /\ timeOk
        THEN [y |-> y, m |-> m, d |-> d, hh |-> hh, mi |-> mi, ss |-> ss]
      ELSE Null

Pad2(n) == IF n < 10 THEN "0" \o NatToStr(n) ELSE NatToStr(n)

\* Date.prototype.toISOString of the date with fields f.
ToISOString(f) ==
  NatToStr(f.y) \o "-" \o Pad2(f.m) \o "-" \o Pad2(f.d) \o "T"
    \o Pad2(f.hh) \o ":" \o Pad2(f.mi) \o ":" \o Pad2(f.ss) \o ".000Z"

\* The year of the epoch of getTime.
EpochYear == 1970

\* Date.prototype.getTime of the date with fields f, in seconds on a scale
\* of 31-day months from the epoch (order and equality of instants are
\* those of getTime).
TimeValue(f) ==
  ((((f.y - EpochYear) * 12 + (f.m - 1)) * 31 + (f.d - 1)) * 24 + f.hh) * 3600
    + f.mi * 60 + f.ss

\* new Date(text) as the canonical text of the instant, NullStr for an
\* Invalid Date: f are the fields read from s.  A text outside the ECMAScript
\* format goes to the runtime's implementation-defined parser, whose outcome
\* is legacyDate; the empty text is an Invalid Date in every runtime.
NewDateOf(s, f) ==
  IF f # Null THEN ToISOString(f)
  ELSE IF Trim(s) = "" THEN NullStr
  ELSE legacyDate

NewDate(s) == NewDateOf(s, IsoFields(s))

\* getTime of the instant with canonical text iso; NaN for an Invalid Date.
TimeOfIso(iso) == IF iso = NullStr THEN NaN ELSE TimeValue(IsoFields(iso))

\* new Date(text).getTime()
GetTime(s) == TimeOfIso(NewDate(s))

-----------------------------------------------------------------------------
(* src/src/parser.js *)

MARVEL_RIVALS_RANKS ==
  <<"Bronze", "Silver", "Gold", "Platinum", "Diamond",
    "Grandmaster", "Celestial", "Eternity", "One Above All">>

OVERWATCH_RANKS ==
  <<"Bronze", "Silver", "Gold", "Platinum", "Diamond",
    "Master", "Grandmaster", "Champion", "Top 500">>

DEADLOCK_RANKS ==
  <<"Initiate", "Seeker", "Alchemist", "Arcanist", "Ritualist",
    "Emissary", "Archon", "Oracle", "Phantom Ascendant", "Eternus">>

MaxTierMR == 3

MaxTierOW == 5

MaxTierDL == 6

\* mention.match(/<@!?(\d+)>/): the digits of the leftmost match, or NullStr.
RECURSIVE MentionFrom(_, _)
MentionFrom(s, i) ==
  IF i > Len(s) THEN NullStr
  ELSE LET b == IF Char(s, i + 2) = "!" THEN i + 3 ELSE i + 2
           n == DigitRun(s, b)
       IN  IF Char(s, i) = "<" /\ Char(s, i + 1) = "@" /\ n > 0
              /\ Char(s, b + n) = ">"
           THEN SubSeq(s, b, b + n - 1)
           ELSE MentionFrom(s, i + 1)

extractUserId(mention) == MentionFrom(mention, 1)

\* parseDate: the normalized timestamp, or NullStr.
parseDate(dateString) == NewDate(dateString)

\* text.replace(/[<>'"...;()]/g, ''): every disallowed character removed.  The
\* grave accent, the one character of the class that a TLA+ string cannot
\* hold, occurs in no modelled text.
RECURSIVE StripDisallowed(_)
StripDisallowed(s) ==
  IF Len(s) = 0 THEN ""
  ELSE (IF Head(s) \in {"<", ">", "'", "\"", ";", "(", ")"} THEN "" ELSE Head(s))
       \o StripDisallowed(Tail(s))

SanitizeMaxLen == 200

sanitize(text) ==
  LET t == Trim(StripDisallowed(text))
  IN  IF Len(t) > SanitizeMaxLen THEN Take(t, SanitizeMaxLen) ELSE t

\* validRanks.findIndex(r => r.toLowerCase() === name.toLowerCase()), 1-based;
\* 0 when there is none.
RECURSIVE RankIndexFrom(_, _, _)
RankIndexFrom(lowerName, validRanks, k) ==
  IF k > Len(validRanks) THEN 0
  ELSE IF ToLowerCase(validRanks[k]) = lowerName THEN k
  ELSE RankIndexFrom(lowerName, validRanks, k + 1)

RankIndex(name, validRanks) == RankIndexFrom(ToLowerCase(name), validRanks, 1)

\* The loop of parseRankWithTier: the greatest i <= n such that the first i
\* parts, joined by a space, name a rank; 0 when there is none.
\* The loop run on the first word alone.
RankPrefixLenFirstWord(parts, validRanks, n) ==
  IF n >= 1 /\ RankIndex(parts[1], validRanks) > 0 THEN 1 ELSE 0

RECURSIVE RankPrefixLen(_, _, _)
RankPrefixLen(parts, validRanks, n) ==
  IF n = 0 THEN 0
  ELSE IF RankIndex(Join(SubSeq(parts, 1, n), " "), validRanks) > 0 THEN n
  ELSE RankPrefixLen(parts, validRanks, n - 1)

\* Validate tier, and tier || 1: NaN (and null) and 0 are falsy, an
\* out-of-range tier becomes null, and every falsy tier becomes 1.
TierOrDefault(tier, maxTier) ==
  IF IsNaN(tier) \/ tier = 0 \/ tier < 1 \/ tier > maxTier THEN 1 ELSE tier

\* The result of parseRankWithTier when the first i parts name the rank:
\* if (parts[i]) tier = parseInt(parts[i], 10), else tier stays null.
RankWithTierAt(parts, i, validRanks, maxTier) ==
  IF i = 0 THEN Null
  ELSE [rank |-> validRanks[RankIndex(Join(SubSeq(parts, 1, i), " "), validRanks)],
        tier |-> TierOrDefault(IF i + 1 <= Len(parts) /\ parts[i + 1] # ""
                               THEN ParseInt(parts[i + 1]) ELSE NaN, maxTier)]

RankWithTierOfParts(parts, validRanks, maxTier) ==
  RankWithTierAt(parts, RankPrefixLen(parts, validRanks, Len(parts)), validRanks, maxTier)

parseRankWithTier(rankString, validRanks, maxTier) ==
  RankWithTierOfParts(SplitWs(Trim(rankString)), validRanks, maxTier)

\* The key with the tier counted upwards: a larger tier number gives a
\* larger key.
RankSortValueAtTierAscending(rankIndex, tier, maxTier) ==
  IF rankIndex = -1 THEN 999999
  ELSE IF IsNaN(tier) THEN NaN
  ELSE (rankIndex * maxTier) + tier

\* The key of a rank whose name is at 0-based index rankIndex of the list.
RankSortValueAt(rankIndex, tier, maxTier) ==
  IF rankIndex = -1 THEN 999999
  ELSE IF IsNaN(tier) THEN NaN
  ELSE (rankIndex * maxTier) + (maxTier - tier + 1)

getRankSortValue(rankObj, validRanks, maxTier) ==
  IF rankObj = Null THEN 999999
  ELSE RankSortValueAt(RankIndex(rankObj.rank, validRanks) - 1, rankObj.tier, maxTier)

\* The while loops that collect a rank phrase: the first position at or after
\* e (1-based) whose part parseInt reads as a number, or Len(parts) + 1.
RECURSIVE PhraseEnd(_, _)
PhraseEnd(parts, e) ==
  IF e <= Len(parts) /\ IsNaN(ParseInt(parts[e])) THEN PhraseEnd(parts, e + 1) ELSE e

\* The phrase handed to parseRankWithTier: the array starts as [parts[start]]
\* and the loop pushes the parts from index from up to the phrase end.
RankPhrase(parts, start, from, end) ==
  Join(<<parts[start]>> \o SubSeq(parts, from, end - 1), " ")

\* parseMarvelRivals and parseOverwatch are the same statements with the tag,
\* the game, the rank list and the tier count of the game.  The statements
\* are taken in order, each operator handing the values read so far to the
\* next; every failure returns null.

\* The return statement.
TwoRankResult(parts, game, currentRank, currentValue, peakRank, peakValue, parsedDate) ==
  IF peakRank = Null THEN Null
  ELSE IF IsNaN(peakValue) \/ peakValue < 0 THEN Null
  ELSE IF parsedDate = NullStr THEN Null
  ELSE [game |-> game, userId |-> extractUserId(parts[1]), role |-> sanitize(parts[2]),
        currentRank |-> currentRank, currentValue |-> currentValue,
        peakRank |-> peakRank, peakValue |-> peakValue,
        lastUpdated |-> parsedDate, rawMention |-> parts[1]]

\* Parse peak rank, peak value and the date.
TwoRankPeak(parts, game, validRanks, maxTier, currentRank, currentValue, peakRankStart, peakRankEnd) ==
  IF currentRank = Null THEN Null
  ELSE IF IsNaN(currentValue) \/ currentValue < 0 THEN Null
  ELSE IF peakRankEnd > Len(parts) THEN Null
  ELSE TwoRankResult(parts, game, currentRank, currentValue,
         parseRankWithTier(RankPhrase(parts, peakRankStart, peakRankStart + 1, peakRankEnd),
                           validRanks, maxTier),
         ParseInt(parts[peakRankEnd]),
         parseDate(Join(SliceFrom(parts, peakRankEnd), " ")))

\* Parse current rank and current value: currentRankParts starts as
\* [parts[2]] and the loop starts at index 2 as well.
TwoRankCurrent(parts, game, validRanks, maxTier, currentRankEnd) ==
  IF currentRankEnd > Len(parts) THEN Null
  ELSE TwoRankPeak(parts, game, validRanks, maxTier,
         parseRankWithTier(RankPhrase(parts, 3, 3, currentRankEnd), validRanks, maxTier),
         ParseInt(parts[currentRankEnd]),
         currentRankEnd + 1,
         PhraseEnd(parts, currentRankEnd + 2))

TwoRankOfParts(parts, game, validRanks, maxTier) ==
  IF Len(parts) < 7 THEN Null
  ELSE IF extractUserId(parts[1]) = NullStr THEN Null
  ELSE TwoRankCurrent(parts, game, validRanks, maxTier, PhraseEnd(parts, 3))

ParseTwoRank(messageContent, tag, game, validRanks, maxTier) ==
  IF messageContent = NullStr \/ ~StartsWith(Trim(messageContent), tag) THEN Null
  ELSE TwoRankOfParts(SplitWs(Trim(Drop(Trim(messageContent), Len(tag)))),
                      game, validRanks, maxTier)

parseMarvelRivals(messageContent) ==
  ParseTwoRank(messageContent, "LB_UPDATE_MR:", "MARVEL_RIVALS",
               MARVEL_RIVALS_RANKS, MaxTierMR)

parseOverwatch(messageContent) ==
  ParseTwoRank(messageContent, "LB_UPDATE_OW:", "OVERWATCH",
               OVERWATCH_RANKS, MaxTierOW)

\* parseDeadlock, statement by statement in the same way.
DeadlockResult(parts, currentRank, currentValue, parsedDate) ==
  IF currentRank = Null THEN Null
  ELSE IF IsNaN(currentValue) \/ currentValue < 0 THEN Null
  ELSE IF parsedDate = NullStr THEN Null
  ELSE [game |-> "DEADLOCK", userId |-> extractUserId(parts[1]),
        heroName |-> sanitize(parts[2]),
        currentRank |-> currentRank, currentValue |-> currentValue,
        lastUpdated |-> parsedDate, rawMention |-> parts[1]]

DeadlockCurrent(parts, currentRankEnd) ==
  IF currentRankEnd > Len(parts) THEN Null
  ELSE DeadlockResult(parts,
         parseRankWithTier(RankPhrase(parts, 3, 3, currentRankEnd),
                           DEADLOCK_RANKS, MaxTierDL),
         ParseInt(parts[currentRankEnd]),
         parseDate(Join(SliceFrom(parts, currentRankEnd), " ")))

DeadlockOfParts(parts) ==
  IF Len(parts) < 5 THEN Null
  ELSE IF extractUserId(parts[1]) = NullStr THEN Null
  ELSE DeadlockCurrent(parts, PhraseEnd(parts, 3))

parseDeadlock(messageContent) ==
  IF messageContent = NullStr \/ ~StartsWith(Trim(messageContent), "LB_UPDATE_DL:")
  THEN Null
  ELSE DeadlockOfParts(SplitWs(Trim(Drop(Trim(messageContent), Len("LB_UPDATE_DL:")))))

parseMessage(messageContent) ==
  IF messageContent = NullStr \/ messageContent = "" THEN Null
  ELSE IF Includes(messageContent, "LB_UPDATE_MR:") THEN parseMarvelRivals(messageContent)
  ELSE IF Includes(messageContent, "LB_UPDATE_OW:") THEN parseOverwatch(messageContent)
  ELSE IF Includes(messageContent, "LB_UPDATE_DL:") THEN parseDeadlock(messageContent)
  ELSE Null

\* The body of the loop of parseMultipleUpdates, parsed being the result of
\* parseMessage(message.content).
ParseStep(results, message, parsed, gameType) ==
  IF parsed = Null
    THEN [results EXCEPT !.skipped = @ + 1]
  ELSE IF gameType # NullStr /\ gameType # "" /\ parsed.game # gameType
    THEN [results EXCEPT !.skipped = @ + 1]
  ELSE IF parsed # Null
    THEN [results EXCEPT !.successful =
            Append(@, [messageId |-> message.id,
                       timestamp |-> message.createdTimestamp,
                       author |-> message.author,
                       data |-> parsed])]
  ELSE [results EXCEPT !.failed =
          Append(@, [messageId |-> message.id, content |-> message.content,
                     reason |-> "parse_error"])]

RECURSIVE ParseLoop(_, _, _, _)
ParseLoop(results, messages, i, gameType) ==
  IF i > Len(messages) THEN results
  ELSE ParseLoop(ParseStep(results, messages[i], parseMessage(messages[i].content),
                           gameType),
                 messages, i + 1, gameType)

parseMultipleUpdates(messages, gameType) ==
  ParseLoop([successful |-> <<>>, failed |-> <<>>, skipped |-> 0], messages, 1, gameType)

\* A property of an object that may lack it (undefined reads as Null).
Field(obj, name) == IF name \in DOMAIN obj THEN obj[name] ELSE Null

\* x - y, x !== y and x < y on numbers that may be NaN.
Minus(x, y) == IF IsNaN(x) \/ IsNaN(y) THEN NaN ELSE x - y

NotSame(x, y) == IsNaN(x) \/ IsNaN(y) \/ x # y

Less(x, y) == ~IsNaN(x) /\ ~IsNaN(y) /\ x < y

\* new Date(b) - new Date(a)
DateDiff(b, a) == Minus(GetTime(b), GetTime(a))

\* The comparator with the first tiebreaker turned round (b - a).
CompareTwoRankKeysValueDescending(a, b, aRankValue, bRankValue, aPeakValue, bPeakValue) ==
  IF NotSame(aRankValue, bRankValue) THEN Minus(bRankValue, aRankValue)
  ELSE IF NotSame(a.currentValue, b.currentValue)
    THEN Minus(b.currentValue, a.currentValue)
  ELSE IF NotSame(aPeakValue, bPeakValue) THEN Minus(bPeakValue, aPeakValue)
  ELSE IF NotSame(a.peakValue, b.peakValue) THEN Minus(a.peakValue, b.peakValue)
  ELSE DateDiff(b.lastUpdated, a.lastUpdated)

\* The comparator of sortPlayers for a two-rank game, given the four rank
\* keys.
CompareTwoRankKeys(a, b, aRankValue, bRankValue, aPeakValue, bPeakValue) ==
  IF NotSame(aRankValue, bRankValue) THEN Minus(bRankValue, aRankValue)
  ELSE IF NotSame(a.currentValue, b.currentValue)
    THEN Minus(a.currentValue, b.currentValue)
  ELSE IF NotSame(aPeakValue, bPeakValue) THEN Minus(bPeakValue, aPeakValue)
  ELSE IF NotSame(a.peakValue, b.peakValue) THEN Minus(a.peakValue, b.peakValue)
  ELSE DateDiff(b.lastUpdated, a.lastUpdated)

CompareTwoRank(a, b, validRanks, maxTier) ==
  CompareTwoRankKeys(a, b,
    getRankSortValue(Field(a, "currentRank"), validRanks, maxTier),
    getRankSortValue(Field(b, "currentRank"), validRanks, maxTier),
    getRankSortValue(Field(a, "peakRank"), validRanks, maxTier),
    getRankSortValue(Field(b, "peakRank"), validRanks, maxTier))

\* The comparator of sortPlayers for Deadlock, given the two rank keys.
CompareDeadlockKeys(a, b, aRankValue, bRankValue) ==
  IF NotSame(aRankValue, bRankValue) THEN Minus(bRankValue, aRankValue)
  ELSE IF NotSame(a.currentValue, b.currentValue)
    THEN Minus(a.currentValue, b.currentValue)
  ELSE DateDiff(b.lastUpdated, a.lastUpdated)

CompareDeadlock(a, b) ==
  CompareDeadlockKeys(a, b,
    getRankSortValue(Field(a, "currentRank"), DEADLOCK_RANKS, MaxTierDL),
    getRankSortValue(Field(b, "currentRank"), DEADLOCK_RANKS, MaxTierDL))

\* The comparator of sortPlayers.
ComparePlayers(a, b, gameType) ==
  IF gameType \in {"MARVEL_RIVALS", "OVERWATCH"}
    THEN CompareTwoRank(a, b,
           IF gameType = "MARVEL_RIVALS" THEN MARVEL_RIVALS_RANKS ELSE OVERWATCH_RANKS,
           IF gameType = "MARVEL_RIVALS" THEN MaxTierMR ELSE MaxTierOW)
  ELSE IF gameType = "DEADLOCK" THEN CompareDeadlock(a, b)
  ELSE 0

\* Array.prototype.sort reads a NaN result of the comparator as 0.
SortOrder(v) == IF IsNaN(v) THEN 0 ELSE v

\* Array.prototype.sort is stable: x goes after every element that does not
\* compare greater than it (a stable insertion; with a consistent comparator
\* every stable sort gives this order).
RECURSIVE InsertSorted(_, _, _, _)
InsertSorted(sorted, n, x, gameType) ==
  IF n = 0 THEN <<x>> \o sorted
  ELSE IF SortOrder(ComparePlayers(sorted[n], x, gameType)) <= 0
    THEN SubSeq(sorted, 1, n) \o <<x>> \o SubSeq(sorted, n + 1, Len(sorted))
  ELSE InsertSorted(sorted, n - 1, x, gameType)

RECURSIVE SortLoop(_, _, _, _)
SortLoop(sorted, players, i, gameType) ==
  IF i > Len(players) THEN sorted
  ELSE SortLoop(InsertSorted(sorted, Len(sorted), players[i], gameType),
                players, i + 1, gameType)

sortPlayers(players, gameType) == SortLoop(<<>>, players, 1, gameType)

-----------------------------------------------------------------------------
(* src/storage.js *)

DATA_START_MARKER == "[DATA:v1]"

DATA_END_MARKER == "[/DATA]"

\* An element that Array.prototype.map left undefined.
Undefined == [undefined |-> TRUE]

\* value || 'Unknown' on a text
OrUnknown(v) == IF v = NullStr \/ v = "" THEN "Unknown" ELSE v

\* The text of one rank field: the rank name, a space, the tier.
RankText(rankObj) == rankObj.rank \o " " \o NumToStr(rankObj.tier)

\* The line encodePlayerData writes for one player.
EncodePlayerLine(player, gameType) ==
  IF gameType \in {"MARVEL_RIVALS", "OVERWATCH"}
    THEN Join(<<player.userId,
                OrUnknown(IF "role" \in DOMAIN player THEN player.role ELSE NullStr),
                RankText(player.currentRank),
                NumToStr(player.currentValue),
                RankText(player.peakRank),
                NumToStr(player.peakValue),
                player.lastUpdated>>, "|")
  ELSE IF gameType = "DEADLOCK"
    THEN Join(<<player.userId,
                OrUnknown(IF "heroName" \in DOMAIN player THEN player.heroName ELSE NullStr),
                RankText(player.currentRank),
                NumToStr(player.currentValue),
                player.lastUpdated>>, "|")
  ELSE ""

encodePlayerData(players, gameType) ==
  Join([i \in 1..Len(players) |-> EncodePlayerLine(players[i], gameType)], "\n")

\* const [rankName, tier] = field.split(' '), tier read by parseInt
RankOfPieces(pieces) == [rank |-> pieces[1], tier |-> ParseIntAt(pieces, 2)]

DecodeRank(field) == RankOfPieces(SplitOn(field, " "))

\* What the map callback of decodePlayerData returns for the parts of a line.
DecodePlayerParts(parts, gameType) ==
  IF gameType \in {"MARVEL_RIVALS", "OVERWATCH"}
    THEN IF Len(parts) < 7 THEN Null
         ELSE [userId |-> parts[1], role |-> parts[2],
               currentRank |-> DecodeRank(parts[3]),
               currentValue |-> ParseInt(parts[4]),
               peakRank |-> DecodeRank(parts[5]),
               peakValue |-> ParseInt(parts[6]),
               lastUpdated |-> parts[7]]
  ELSE IF gameType = "DEADLOCK"
    THEN IF Len(parts) < 5 THEN Null
         ELSE [userId |-> parts[1], heroName |-> parts[2],
               currentRank |-> DecodeRank(parts[3]),
               currentValue |-> ParseInt(parts[4]),
               lastUpdated |-> parts[5]]
  ELSE Undefined

DecodePlayerLine(line, gameType) == DecodePlayerParts(SplitOn(line, "|"), gameType)

\* lines.filter(line => line.trim())
RECURSIVE NonBlankLines(_, _)
NonBlankLines(lines, i) ==
  IF i > Len(lines) THEN <<>>
  ELSE (IF Trim(lines[i]) # "" THEN <<lines[i]>> ELSE <<>>) \o NonBlankLines(lines, i + 1)

\* .map(line => ...).filter(player => player !== null)
RECURSIVE DecodeLines(_, _, _)
DecodeLines(lines, i, gameType) ==
  IF i > Len(lines) THEN <<>>
  ELSE (IF DecodePlayerLine(lines[i], gameType) # Null
        THEN <<DecodePlayerLine(lines[i], gameType)>> ELSE <<>>)
       \o DecodeLines(lines, i + 1, gameType)

decodePlayerData(dataString, gameType) ==
  IF dataString = NullStr \/ Trim(dataString) = "" THEN <<>>
  ELSE DecodeLines(NonBlankLines(SplitOn(Trim(dataString), "\n"), 1), 1, gameType)

encodeState(lastProcessedMessageId, players, gameType) ==
  Join(<<DATA_START_MARKER,
         "GAME:" \o (IF gameType = NullStr THEN "null" ELSE gameType),
         "LAST:" \o (IF lastProcessedMessageId = NullStr \/ lastProcessedMessageId = ""
                     THEN "none" ELSE lastProcessedMessageId),
         encodePlayerData(players, gameType),
         DATA_END_MARKER>>, "\n")

EmptyState == [gameType |-> NullStr, lastProcessedMessageId |-> NullStr, players |-> <<>>]

\* String.prototype.substring(a, b) with 0-based a, b: the arguments are
\* swapped when a > b.
Substring(s, a, b) == IF a <= b THEN SubSeq(s, a + 1, b) ELSE SubSeq(s, b + 1, a)

\* line?.match(/^PREFIX(.+)$/): the captured text, or NullStr.
MatchPrefix(lines, i, prefix) ==
  IF i <= Len(lines) /\ StartsWith(lines[i], prefix) /\ Len(lines[i]) > Len(prefix)
  THEN Drop(lines[i], Len(prefix)) ELSE NullStr

\* The state read from the lines between the markers.
StateOfLines(lines, gameType, lastMatch) ==
  [gameType |-> gameType,
   lastProcessedMessageId |-> IF lastMatch # "none" THEN lastMatch ELSE NullStr,
   players |-> decodePlayerData(Join(SliceFrom(lines, 2), "\n"), gameType)]

DecodeLinesOfSection(lines) ==
  StateOfLines(lines, MatchPrefix(lines, 1, "GAME:"), MatchPrefix(lines, 2, "LAST:"))

\* decodeState taking a missing end marker for the end of the text.
DecodeBetweenOpenEnd(messageContent, startIdx, endIdx) ==
  IF startIdx = -1 THEN EmptyState
  ELSE DecodeLinesOfSection(
         SplitOn(Trim(Substring(messageContent, startIdx + Len(DATA_START_MARKER),
                                IF endIdx = -1 THEN Len(messageContent) ELSE endIdx)),
                 "\n"))

\* decodeState once the 0-based indexes of the markers are known.
DecodeBetween(messageContent, startIdx, endIdx) ==
  IF startIdx = -1 \/ endIdx = -1 THEN EmptyState
  ELSE DecodeLinesOfSection(
         SplitOn(Trim(Substring(messageContent,
                                startIdx + Len(DATA_START_MARKER), endIdx)), "\n"))

decodeState(messageContent) ==
  IF messageContent = NullStr \/ messageContent = "" THEN EmptyState
  ELSE DecodeBetween(messageContent,
                     IndexOf(messageContent, DATA_START_MARKER) - 1,
                     IndexOf(messageContent, DATA_END_MARKER) - 1)

\* players.findIndex(p => p.userId === userId), 1-based; 0 when there is none.
RECURSIVE FindIndexFrom(_, _, _)
FindIndexFrom(players, userId, k) ==
  IF k > Len(players) THEN 0
  ELSE IF players[k].userId = userId THEN k
  ELSE FindIndexFrom(players, userId, k + 1)

\* findIndex that never looks at the first player.
FindIndexSkippingFirst(players, userId) == FindIndexFrom(players, userId, 2)

FindIndex(players, userId) == FindIndexFrom(players, userId, 1)

\* The comparison written with <= in place of <.
DateBeforeOrSame(newDate, existingDate) ==
  Less(GetTime(newDate), GetTime(existingDate))
    \/ (~IsNaN(GetTime(newDate)) /\ GetTime(newDate) = GetTime(existingDate))

\* newDate < existingDate on Date objects (false when either is invalid).
DateBefore(newDate, existingDate) == Less(GetTime(newDate), GetTime(existingDate))

\* upsertPlayer pushing the incoming record of a stored user that is not
\* stale, the stored one staying where it is.
UpsertAtAppending(players, newPlayerData, existingIndex) ==
  IF existingIndex > 0
       /\ DateBefore(newPlayerData.lastUpdated, players[existingIndex].lastUpdated)
    THEN [players |-> players, updated |-> FALSE]
  ELSE [players |-> Append(players, newPlayerData), updated |-> TRUE]

\* upsertPlayer replacing the record of a stored user whatever its date: the
\* update that arrives last wins.
UpsertAtLastArrivalWins(players, newPlayerData, existingIndex) ==
  IF existingIndex > 0
    THEN [players |-> [players EXCEPT ![existingIndex] = newPlayerData], updated |-> TRUE]
  ELSE [players |-> Append(players, newPlayerData), updated |-> TRUE]

\* upsertPlayer once existingIndex is known.
UpsertAt(players, newPlayerData, existingIndex) ==
  IF existingIndex > 0
    THEN IF DateBefore(newPlayerData.lastUpdated, players[existingIndex].lastUpdated)
           THEN [players |-> players, updated |-> FALSE]
         ELSE [players |-> [players EXCEPT ![existingIndex] = newPlayerData],
               updated |-> TRUE]
  ELSE [players |-> Append(players, newPlayerData), updated |-> TRUE]

upsertPlayer(players, newPlayerData) ==
  UpsertAt(players, newPlayerData, FindIndex(players, newPlayerData.userId))

-----------------------------------------------------------------------------
(* src/src/renderer.js: the leaderboard message *)

\* A character outside ASCII is written "~", once per UTF-16 code unit, so
\* that the length of a text is the length the program measures.
RankEmojiUnits(rankName) ==
  IF ToLowerCase(rankName) \in {"silver", "celestial", "top 500"} THEN "~"
  ELSE IF ToLowerCase(rankName) = "master" THEN "~~~"
  ELSE "~~"

getRankEmoji(rankName) == RankEmojiUnits(rankName)

\* The text of the count n of units: "1 day ago", "3 days ago".
Ago(n, unit) ==
  IF n = 1 THEN "1 " \o unit \o " ago" ELSE NumToStr(n) \o " " \o unit \o "s ago"

\* getRelativeTime once the difference in seconds is known (NaN for an
\* Invalid Date, which fails every comparison).
RelativeTimeOf(diffSeconds) ==
  IF IsNaN(diffSeconds) THEN "NaN years ago"
  ELSE IF diffSeconds < 60 THEN Ago(diffSeconds, "second")
  ELSE IF diffSeconds \div 60 < 60 THEN Ago(diffSeconds \div 60, "minute")
  ELSE IF diffSeconds \div 3600 < 24 THEN Ago(diffSeconds \div 3600, "hour")
  ELSE IF diffSeconds \div 86400 < 7 THEN Ago(diffSeconds \div 86400, "day")
  ELSE IF (diffSeconds \div 86400) \div 7 < 4 THEN Ago((diffSeconds \div 86400) \div 7, "week")
  ELSE IF (diffSeconds \div 86400) \div 30 < 12
    THEN Ago((diffSeconds \div 86400) \div 30, "month")
  ELSE Ago((diffSeconds \div 86400) \div 365, "year")

getRelativeTime(dateString, now) == RelativeTimeOf(Minus(GetTime(now), GetTime(dateString)))

formatRank(rankObj) ==
  IF rankObj = Null THEN "Unknown" ELSE rankObj.rank \o " " \o NumToStr(rankObj.tier)

renderMRorOWEntry(player, gameType, now) ==
  "<@" \o player.userId \o ">  ~  " \o player.role \o "  ~  "
    \o getRankEmoji(player.currentRank.rank) \o " " \o formatRank(player.currentRank)
    \o " (" \o NumToStr(player.currentValue) \o " "
    \o (IF gameType = "OVERWATCH" THEN "SR" ELSE "RR") \o ")  ~  Peak: "
    \o getRankEmoji(player.peakRank.rank) \o " " \o formatRank(player.peakRank)
    \o " " \o NumToStr(player.peakValue) \o "  ~  "
    \o getRelativeTime(player.lastUpdated, now)

renderDeadlockEntry(player, now) ==
  "<@" \o player.userId \o ">  ~  " \o player.heroName \o "  ~  "
    \o getRankEmoji(player.currentRank.rank) \o " " \o formatRank(player.currentRank)
    \o " (" \o NumToStr(player.currentValue) \o " MMR)  ~  "
    \o getRelativeTime(player.lastUpdated, now)

\* The lines of the players shown.
EntryLines(limitedPlayers, gameType, now) ==
  IF gameType \in {"MARVEL_RIVALS", "OVERWATCH"}
    THEN [i \in 1..Len(limitedPlayers) |->
            renderMRorOWEntry(limitedPlayers[i], gameType, now)]
  ELSE IF gameType = "DEADLOCK"
    THEN [i \in 1..Len(limitedPlayers) |-> renderDeadlockEntry(limitedPlayers[i], now)]
  ELSE <<>>

\* String.prototype.toUpperCase
RECURSIVE ToUpperCase(_)
ToUpperCase(s) ==
  IF Len(s) = 0 THEN ""
  ELSE (IF \E c \in DOMAIN LowerChar : LowerChar[c] = Head(s)
        THEN CHOOSE c \in DOMAIN LowerChar : LowerChar[c] = Head(s) ELSE Head(s))
       \o ToUpperCase(Tail(s))

\* renderLeaderboard at the time nowUtc (the text of now.toUTCString()), now
\* being the same instant as toISOString writes it.  The hint of the empty
\* board is quoted with "'" where the source has grave accents.
renderLeaderboard(gameName, players, lastProcessedMessageId, gameType, maxPlayers, now, nowUtc) ==
  Join(<<"~~ " \o ToUpperCase(gameName) \o " LEADERBOARD", "">>
       \o (IF Len(players) = 0
           THEN <<"No leaderboard data available.", "",
                  "~~ Use '" \o (IF gameType = "MARVEL_RIVALS" THEN "LB_UPDATE_MR"
                                 ELSE IF gameType = "OVERWATCH" THEN "LB_UPDATE_OW"
                                 ELSE "LB_UPDATE_DL") \o ": @user ...' to add entries.">>
           ELSE EntryLines(SubSeq(players, 1, IF maxPlayers < Len(players)
                                              THEN maxPlayers ELSE Len(players)),
                           gameType, now))
       \o <<"", "~~~~~~~~~~~~~~~~~~">>
       \o (IF Len(players) > 0
           THEN <<"~~ Total Players: " \o NumToStr(Len(players))>>
                \o (IF Len(players) > maxPlayers
                    THEN <<"(Showing top " \o NumToStr(maxPlayers) \o ")">> ELSE <<>>)
           ELSE <<>>)
       \o <<"Last Updated: " \o nowUtc, "",
            encodeState(lastProcessedMessageId, players, gameType)>>,
       "\n")

\* The default of the maxPlayers option.
DefaultMaxPlayers == 50

MAX_LENGTH == 2000

validateMessageLength(content) == Len(content) <= MAX_LENGTH

\* The default of the maxLength parameter of truncateIfNeeded.
TruncateMaxLength == 1900

\* The loop of truncateIfNeeded, at playerCount players; TruncateTry is the
\* test of the text rendered for that count.
RECURSIVE TruncateLoop(_, _, _, _, _, _, _)
RECURSIVE TruncateTry(_, _, _, _, _, _, _, _)
TruncateTry(rendered, gameName, players, lastProcessedMessageId, gameType, playerCount, now, nowUtc) ==
  IF Len(rendered) <= TruncateMaxLength
    THEN [content |-> rendered, truncated |-> TRUE, shownCount |-> playerCount]
  ELSE TruncateLoop(gameName, players, lastProcessedMessageId, gameType,
                    playerCount \div 2, now, nowUtc)

TruncateLoop(gameName, players, lastProcessedMessageId, gameType, playerCount, now, nowUtc) ==
  IF playerCount > 0
    THEN TruncateTry(renderLeaderboard(gameName, SubSeq(players, 1, playerCount),
                                       lastProcessedMessageId, gameType, playerCount,
                                       now, nowUtc),
                     gameName, players, lastProcessedMessageId, gameType, playerCount,
                     now, nowUtc)
  ELSE [content |-> renderLeaderboard(gameName,
                                      SubSeq(players, 1, IF Len(players) < 3
                                                         THEN Len(players) ELSE 3),
                                      lastProcessedMessageId, gameType,
                                      DefaultMaxPlayers, now, nowUtc),
        truncated |-> TRUE, shownCount |-> 3]

\* truncateIfNeeded, rendered being the text of all the players.
TruncateRendered(rendered, gameName, players, lastProcessedMessageId, gameType, now, nowUtc) ==
  IF Len(rendered) <= TruncateMaxLength
    THEN [content |-> rendered, truncated |-> FALSE]
  ELSE TruncateLoop(gameName, players, lastProcessedMessageId, gameType,
                    Len(players) \div 2, now, nowUtc)

truncateIfNeeded(gameName, players, lastProcessedMessageId, gameType, now, nowUtc) ==
  TruncateRendered(renderLeaderboard(gameName, players, lastProcessedMessageId, gameType,
                                     DefaultMaxPlayers, now, nowUtc),
                   gameName, players, lastProcessedMessageId, gameType, now, nowUtc)

-----------------------------------------------------------------------------
(* src/sync.js and the Discord integration: one sync cycle of a game *)

\* Math.min
Min(a, b) == IF a < b THEN a ELSE b

\* The messages of a channel (oldest first) whose id is greater than after.
RECURSIVE MessagesAfter(_, _, _)
MessagesAfter(messages, after, i) ==
  IF i > Len(messages) THEN <<>>
  ELSE (IF ParseInt(messages[i].id) > ParseInt(after) THEN <<messages[i]>> ELSE <<>>)
       \o MessagesAfter(messages, after, i + 1)

\* The cap fetchMessages puts on its limit.
FetchCap == 100

\* DiscordIntegration.fetchMessages on a channel holding messages (oldest
\* first): with an after id the service returns the messages that follow it,
\* at most limit of them starting from the oldest; without one, the newest
\* limit messages.  The result is sorted by createdTimestamp, ascending.
fetchMessages(messages, afterMessageId, limit) ==
  IF afterMessageId # NullStr /\ afterMessageId # ""
    THEN SubSeq(MessagesAfter(messages, afterMessageId, 1), 1,
                Min(Min(limit, FetchCap), Len(MessagesAfter(messages, afterMessageId, 1))))
  ELSE SubSeq(messages, Len(messages) - Min(Min(limit, FetchCap), Len(messages)) + 1,
              Len(messages))

\* The display names of loadGameConfigurations.
GameName(gameKey) ==
  IF gameKey = "MARVEL_RIVALS" THEN "Marvel Rivals"
  ELSE IF gameKey = "OVERWATCH" THEN "Overwatch"
  ELSE "Deadlock"

\* parseInt(process.env.MAX_MESSAGES_PER_SYNC || '100', 10) with the variable
\* unset.
MaxMessagesPerSync == 100

\* The state syncGame starts from: the decoded persistent message, or the
\* fresh state when there is no message.
CurrentStateOf(messageContent) ==
  IF messageContent # NullStr /\ messageContent # "" THEN decodeState(messageContent)
  ELSE EmptyState

\* The locals of the update loop before its first turn.
MergeStart(currentState) ==
  [players |-> currentState.players, updatedCount |-> 0,
   lastMessageId |-> currentState.lastProcessedMessageId, outcomes |-> <<>>]

\* The body of the loop with lastMessageId assigned only for an update that
\* was applied.
MergeStepCursorOnApplied(acc, update, result) ==
  [players |-> result.players,
   updatedCount |-> acc.updatedCount + (IF result.updated THEN 1 ELSE 0),
   lastMessageId |-> IF result.updated THEN update.messageId ELSE acc.lastMessageId,
   outcomes |-> Append(acc.outcomes, [messageId |-> update.messageId,
                                      userId |-> update.data.userId,
                                      updated |-> result.updated])]

\* One turn of the update loop, result being upsertPlayer(players,
\* update.data); outcomes are the lines the loop logs.
MergeStep(acc, update, result) ==
  [players |-> result.players,
   updatedCount |-> acc.updatedCount + (IF result.updated THEN 1 ELSE 0),
   lastMessageId |-> update.messageId,
   outcomes |-> Append(acc.outcomes, [messageId |-> update.messageId,
                                      userId |-> update.data.userId,
                                      updated |-> result.updated])]

RECURSIVE MergeLoop(_, _, _)
MergeLoop(acc, successful, i) ==
  IF i > Len(successful) THEN acc
  ELSE MergeLoop(MergeStep(acc, successful[i],
                           upsertPlayer(acc.players, successful[i].data)),
                 successful, i + 1)

\* The content to publish: the rendered text, or the truncated one when the
\* rendered text is too long.
ContentToPublish(content, gameName, sortedPlayers, lastMessageId, gameType, now, nowUtc) ==
  IF validateMessageLength(content) THEN content
  ELSE truncateIfNeeded(gameName, sortedPlayers, lastMessageId, gameType, now, nowUtc).content

\* The end of syncGame: render, truncate, publish, return.
PublishCycle(game, currentState, parseResults, merged, sortedPlayers, processed, now, nowUtc) ==
  [publish |-> TRUE,
   content |-> ContentToPublish(
                 renderLeaderboard(GameName(game), sortedPlayers, merged.lastMessageId,
                                   game, DefaultMaxPlayers, now, nowUtc),
                 GameName(game), sortedPlayers, merged.lastMessageId, game, now, nowUtc),
   log |-> [ran |-> TRUE, published |-> TRUE,
            cursorBefore |-> currentState.lastProcessedMessageId,
            parsed |-> [i \in 1..Len(parseResults.successful) |->
                          parseResults.successful[i].messageId],
            outcomes |-> merged.outcomes,
            cursor |-> merged.lastMessageId,
            processed |-> processed, updated |-> merged.updatedCount,
            failed |-> Len(parseResults.failed), skipped |-> parseResults.skipped,
            totalPlayers |-> Len(sortedPlayers)]]

\* syncGame from the parse results on.
MergeCycle(game, currentState, parseResults, merged, processed, now, nowUtc) ==
  PublishCycle(game, currentState, parseResults, merged, sortPlayers(merged.players, game),
               processed, now, nowUtc)

ParsedCycle(game, currentState, parseResults, processed, now, nowUtc) ==
  MergeCycle(game, currentState, parseResults,
             MergeLoop(MergeStart(currentState), parseResults.successful, 1),
             processed, now, nowUtc)

\* syncGame from the fetched messages on.
FetchedCycle(game, currentState, messages, now, nowUtc) ==
  IF Len(messages) = 0
    THEN [publish |-> FALSE, content |-> NullStr,
          log |-> [ran |-> TRUE, published |-> FALSE,
                   cursorBefore |-> currentState.lastProcessedMessageId,
                   parsed |-> <<>>, outcomes |-> <<>>,
                   cursor |-> currentState.lastProcessedMessageId,
                   processed |-> 0, updated |-> 0, failed |-> 0, skipped |-> 0,
                   totalPlayers |-> Len(currentState.players)]]
  ELSE ParsedCycle(game, currentState, parseMultipleUpdates(messages, game),
                   Len(messages), now, nowUtc)

\* syncGame from the decoded state on, maxMessages being the value read from
\* MAX_MESSAGES_PER_SYNC.
LimitedCycle(game, currentState, channelMessages, maxMessages, now, nowUtc) ==
  FetchedCycle(game, currentState,
               fetchMessages(channelMessages, currentState.lastProcessedMessageId,
                             maxMessages),
               now, nowUtc)

DecodedCycle(game, currentState, channelMessages, now, nowUtc) ==
  LimitedCycle(game, currentState, channelMessages, MaxMessagesPerSync, now, nowUtc)

\* syncGame with MAX_MESSAGES_PER_SYNC set to maxMessages.
syncGameWithLimit(game, messageContent, channelMessages, maxMessages, now, nowUtc) ==
  LimitedCycle(game, CurrentStateOf(messageContent), channelMessages, maxMessages,
               now, nowUtc)

\* syncGame on a game whose persistent message holds messageContent (NullStr
\* when there is none) and whose channel holds channelMessages.
syncGame(game, messageContent, channelMessages, now, nowUtc) ==
  DecodedCycle(game, CurrentStateOf(messageContent), channelMessages, now, nowUtc)

-----------------------------------------------------------------------------
(* src/sync.js: syncAll *)

\* The entry syncAll pushes for a game whose syncGame returned.
GameEntry(game, log) ==
  [name |-> GameName(game), error |-> NullStr, processed |-> log.processed,
   updated |-> log.updated, failed |-> log.failed, skipped |-> log.skipped]

\* The entry syncAll pushes for a game whose syncGame threw.
ErrorEntry(game) ==
  [name |-> GameName(game), error |-> "Missing access to channel"]

\* The results before the first game.
SyncAllStart(messages) ==
  [totalProcessed |-> 0, totalUpdated |-> 0, totalFailed |-> 0, totalSkipped |-> 0,
   games |-> <<>>, published |-> messages]

\* One turn of the loop of syncAll when syncGame returned r.
SyncAllDone(acc, game, r) ==
  [totalProcessed |-> acc.totalProcessed + r.log.processed,
   totalUpdated |-> acc.totalUpdated + r.log.updated,
   totalFailed |-> acc.totalFailed + r.log.failed,
   totalSkipped |-> acc.totalSkipped + r.log.skipped,
   games |-> Append(acc.games, GameEntry(game, r.log)),
   published |-> IF r.publish THEN [acc.published EXCEPT ![game] = r.content]
                 ELSE acc.published]

\* One turn of the loop of syncAll when syncGame threw: the catch clause.
SyncAllCaught(acc, game) == [acc EXCEPT !.games = Append(@, ErrorEntry(game))]

\* syncAll with the try statement around the loop: the first game that
\* throws ends the loop.
RECURSIVE SyncAllFromAborting(_, _, _, _, _, _, _)
SyncAllFromAborting(acc, games, i, inaccessible, channels, now, nowUtc) ==
  IF i > Len(games) THEN acc
  ELSE IF games[i] \in inaccessible THEN SyncAllCaught(acc, games[i])
  ELSE SyncAllFromAborting(
         SyncAllDone(acc, games[i],
                     syncGame(games[i], acc.published[games[i]], channels[games[i]],
                              now, nowUtc)),
         games, i + 1, inaccessible, channels, now, nowUtc)

\* The loop of syncAll from the i-th configured game on; the channel or
\* webhook of the games in inaccessible makes syncGame throw before it
\* publishes.
RECURSIVE SyncAllFrom(_, _, _, _, _, _, _)
SyncAllFrom(acc, games, i, inaccessible, channels, now, nowUtc) ==
  IF i > Len(games) THEN acc
  ELSE IF games[i] \in inaccessible
    THEN SyncAllFrom(SyncAllCaught(acc, games[i]), games, i + 1, inaccessible,
                     channels, now, nowUtc)
  ELSE SyncAllFrom(
         SyncAllDone(acc, games[i],
                     syncGame(games[i], acc.published[games[i]], channels[games[i]],
                              now, nowUtc)),
         games, i + 1, inaccessible, channels, now, nowUtc)

\* syncAll over the configured games, whose persistent messages are
\* messages and whose channels are channels.
syncAll(games, inaccessible, messages, channels, now, nowUtc) ==
  SyncAllFrom(SyncAllStart(messages), games, 1, inaccessible, channels, now, nowUtc)

-----------------------------------------------------------------------------
(* Per-game configuration used by the callers of the rank operations *)

RanksOf(game) ==
  IF game = "MARVEL_RIVALS" THEN MARVEL_RIVALS_RANKS
  ELSE IF game = "OVERWATCH" THEN OVERWATCH_RANKS
  ELSE DEADLOCK_RANKS

MaxTierOf(game) ==
  IF game = "MARVEL_RIVALS" THEN MaxTierMR
  ELSE IF game = "OVERWATCH" THEN MaxTierOW
  ELSE MaxTierDL

TagOf(game) ==
  IF game = "MARVEL_RIVALS" THEN "LB_UPDATE_MR:"
  ELSE IF game = "OVERWATCH" THEN "LB_UPDATE_OW:"
  ELSE "LB_UPDATE_DL:"

AllGames == {"MARVEL_RIVALS", "OVERWATCH", "DEADLOCK"}

TwoRankGames == {"MARVEL_RIVALS", "OVERWATCH"}

\* Outcomes of the runtime's implementation-defined date parser on a text
\* outside the ECMAScript format: an Invalid Date, or some instant.
LegacyOutcomes == {NullStr, "2026-02-14T00:00:00.000Z"}

\* All sequences over S of length lo..hi.
SeqsOf(S, lo, hi) == UNION {[1..n -> S] : n \in lo..hi}

\* The variables a specification of one pure operation leaves idle.
SyncIdle == channel = <<>> /\ published = <<>> /\ syncLog = <<>>

\* The variables a call of a pure operation leaves alone.
CallIdle == UNCHANGED <<call, legacyDate, channel, published, syncLog>>

-----------------------------------------------------------------------------
(* Specification SpecRank: calls of parseRankWithTier *)

\* Longest rank-name part of a generated rank string, in words.
MaxNameWords == 3

RankWords(game) ==
  IF game = "MARVEL_RIVALS" THEN {"diamond", "ONE", "Above", "All", "Nonsense"}
  ELSE IF game = "OVERWATCH" THEN {"TOP", "500", "Master", "Nonsense"}
  ELSE {"phantom", "Ascendant", "Archon", "Nonsense"}

\* What may follow the name: nothing, one more token, or two.
TierTokens ==
  {<<>>, <<"3">>, <<"5">>, <<"6">>, <<"7">>, <<"0">>, <<"-2">>, <<"2nd">>,
   <<"x">>, <<"3", "9">>}

InitRank ==
  /\ call \in UNION {{[op |-> "parseRankWithTier", game |-> g, tokens |-> w \o t,
                       rankString |-> Join(w \o t, " ")] :
                         w \in SeqsOf(RankWords(g), 1, MaxNameWords), t \in TierTokens} :
                     g \in AllGames}
  /\ ret = [done |-> FALSE]
  /\ legacyDate = NullStr
  /\ SyncIdle

CallParseRank ==
  /\ ~ret.done
  /\ ret' = [done |-> TRUE, value |-> 
       parseRankWithTier(call.rankString, RanksOf(call.game), MaxTierOf(call.game))]
  /\ CallIdle

SpecRank == InitRank /\ [][CallParseRank]_vars

\* The lengths k of the token prefixes of the call that equal a rank name of
\* the game, letter case aside.
MatchingPrefixes ==
  {k \in 1..Len(call.tokens) :
     \E r \in 1..Len(RanksOf(call.game)) :
        ToLowerCase(Join(SubSeq(call.tokens, 1, k), " "))
          = ToLowerCase(RanksOf(call.game)[r])}

LongestMatch == CHOOSE k \in MatchingPrefixes : \A j \in MatchingPrefixes : j <= k

\* The token right after the longest matching prefix; "" when there is none.
TokenAfterMatch ==
  IF LongestMatch < Len(call.tokens) THEN call.tokens[LongestMatch + 1] ELSE ""

\* A text that is a decimal number: digits and nothing else.
IsDecimal(s) == s # "" /\ \A i \in 1..Len(s) : Char(s, i) \in Digits

\* The result the call must have when the tier is expectedTier.
RankResultIs(expectedTier) ==
  /\ ret.value # Null
  /\ ToLowerCase(ret.value.rank)
       = ToLowerCase(Join(SubSeq(call.tokens, 1, LongestMatch), " "))
  /\ \E r \in 1..Len(RanksOf(call.game)) : ret.value.rank = RanksOf(call.game)[r]
  /\ ret.value.tier = expectedTier

\* C10 (as amended): parseRankWithTier matches the longest token prefix that
\* equals a rank name of the game, letter case aside, and returns the name as
\* the list spells it; when parseInt reads from the start of the next token a
\* number within 1..maxTier, that number is the tier, and otherwise (no token,
\* no leading number, out of range) the tier is 1; when no prefix matches the
\* result is null.
C10_RankRecognition ==
  ret.done =>
    IF MatchingPrefixes = {} THEN ret.value = Null
    ELSE RankResultIs(IF ParseInt(TokenAfterMatch) \in 1..MaxTierOf(call.game)
                      THEN ParseInt(TokenAfterMatch) ELSE 1)

\* C10 witness: a three-word name in other letter case, followed by a tier
\* other than 1, is recognised with that tier.
C10_Witness ==
  /\ ret.done
  /\ call.tokens = <<"ONE", "Above", "All", "3">>
  /\ ret.value = [rank |-> "One Above All", tier |-> 3]

\* C10 (as claimed): the next token gives the tier only when it is a number
\* within 1..maxTier; a token that is no number leaves the tier at 1.
C10_TierOnlyFromNumber ==
  ret.done =>
    IF MatchingPrefixes = {} THEN ret.value = Null
    ELSE RankResultIs(IF IsDecimal(TokenAfterMatch)
                         /\ ParseInt(TokenAfterMatch) \in 1..MaxTierOf(call.game)
                      THEN ParseInt(TokenAfterMatch) ELSE 1)

-----------------------------------------------------------------------------
(* Specification SpecParse: calls of parseMessage *)

Mentions == {"<@111>", "<@!222>"}

MultiWordRank(game) ==
  IF game = "MARVEL_RIVALS" THEN "One Above All"
  ELSE IF game = "OVERWATCH" THEN "Top 500"
  ELSE "Phantom Ascendant"

IsoDates == {"2026-02-14", "2026-02-15T10:30:00Z"}

\* The command forms the README documents:
\*   <tag> <mention> <label> <curRank> <curTier> <curValue>
\*         <peakRank> <peakTier> <peakValue> <date>
DocumentedTwoRankOf(g) ==
  {[op |-> "parseMessage", form |-> "documented", game |-> g,
    mention |-> m, userId |-> extractUserId(m), label |-> "Duelist",
    curRank |-> cr, curTier |-> ct, curValue |-> cv,
    peakRank |-> pr, peakTier |-> pt, peakValue |-> 2610, date |-> d,
    content |-> Join(<<TagOf(g), m, "Duelist", cr, NumToStr(ct), NumToStr(cv),
                       pr, NumToStr(pt), "2610", d>>, " ")] :
     m \in Mentions,
     cr \in {"Diamond", MultiWordRank(g)}, ct \in {2, MaxTierOf(g)}, cv \in {0, 2450},
     pr \in {"Grandmaster", MultiWordRank(g)}, pt \in {1, 2}, d \in IsoDates}

DocumentedTwoRank == UNION {DocumentedTwoRankOf(g) : g \in TwoRankGames}

\*   LB_UPDATE_DL: <mention> <hero> <curRank> <curTier> <curValue> <date>
DocumentedDeadlock ==
  {[op |-> "parseMessage", form |-> "documented", game |-> "DEADLOCK",
    mention |-> m, userId |-> extractUserId(m), label |-> "Haze",
    curRank |-> cr, curTier |-> ct, curValue |-> cv, date |-> d,
    content |-> Join(<<"LB_UPDATE_DL:", m, "Haze", cr, NumToStr(ct), NumToStr(cv), d>>,
                     " ")] :
     m \in Mentions, cr \in {"Archon", MultiWordRank("DEADLOCK")},
     ct \in {1, 4, MaxTierDL}, cv \in {0, 1200}, d \in IsoDates}

\* Commands without the tier tokens.
TierlessTwoRank ==
  {[op |-> "parseMessage", form |-> "tierless", game |-> g,
    mention |-> m, userId |-> extractUserId(m), label |-> l,
    curRank |-> "Diamond", curValue |-> cv,
    peakRank |-> pr, peakValue |-> 2610, date |-> d,
    content |-> Join(<<TagOf(g), m, l, "Diamond", NumToStr(cv), pr, "2610", d>>, " ")] :
     g \in TwoRankGames, m \in Mentions, l \in {"Duelist", "<Tank>"}, cv \in {0, 2450},
     pr \in {"Grandmaster", "One Above All"}, d \in IsoDates}

TierlessDeadlock ==
  {[op |-> "parseMessage", form |-> "tierless", game |-> "DEADLOCK",
    mention |-> m, userId |-> extractUserId(m), label |-> "Haze",
    curRank |-> cr, curValue |-> cv, date |-> d,
    content |-> Join(<<"LB_UPDATE_DL:", m, "Haze", cr, NumToStr(cv), d>>, " ")] :
     m \in Mentions, cr \in {"Archon", "Phantom Ascendant"}, cv \in {0, 1200},
     d \in IsoDates}

\* Messages that are no well-formed command.
OtherMessages ==
  {[op |-> "parseMessage", form |-> "other", game |-> NullStr, content |-> c] :
     c \in {"", "gg wp", "LB_UPDATE_MR: @Turbo Duelist Diamond 2 2450 Master 1 2610 2026-02-14",
            "LB_UPDATE_DL: <@111> Haze Archon 1200 soon",
            "LB_UPDATE_OW: <@111> Tank Diamond",
            "fyi LB_UPDATE_DL: <@111> Haze Archon 1200 2026-02-14"}}

\* Commands that parse when they stand alone, preceded by other text in the
\* same message.
PrefixedCommands ==
  {[c EXCEPT !.form = "prefixed", !.content = "fyi " \o c.content] :
     c \in {t \in TierlessTwoRank : t.peakRank = "Grandmaster" /\ t.label = "Duelist"}
              \cup {t \in TierlessDeadlock : t.curRank = "Archon"}}

InitParse ==
  /\ call \in DocumentedTwoRank \cup DocumentedDeadlock \cup TierlessTwoRank
                \cup TierlessDeadlock \cup OtherMessages \cup PrefixedCommands
  /\ ret = [done |-> FALSE]
  /\ legacyDate \in LegacyOutcomes
  /\ SyncIdle

CallParseMessage ==
  /\ ~ret.done
  /\ ret' = [done |-> TRUE, value |-> parseMessage(call.content)]
  /\ CallIdle

SpecParse == InitParse /\ [][CallParseMessage]_vars

\* The UTC timestamp a date of IsoDates stands for, as toISOString writes it.
NormalizedDate(d) ==
  IF d = "2026-02-14" THEN "2026-02-14T00:00:00.000Z" ELSE "2026-02-15T10:30:00.000Z"

\* C2: a Marvel Rivals or Overwatch command of the documented form (rank
\* names of the game, tiers within 1..maxTier, non-negative values, a valid
\* date) parses to a record with the userId of the mention, role = label,
\* currentRank = {curRank, curTier}, currentValue = curValue,
\* peakRank = {peakRank, peakTier}, peakValue and the normalized date.
C2_DocumentedTwoRankParses ==
  (ret.done /\ call.form = "documented" /\ call.game \in TwoRankGames) =>
    /\ ret.value # Null
    /\ ret.value.userId = call.userId
    /\ ret.value.role = call.label
    /\ ret.value.currentRank = [rank |-> call.curRank, tier |-> call.curTier]
    /\ ret.value.currentValue = call.curValue
    /\ ret.value.peakRank = [rank |-> call.peakRank, tier |-> call.peakTier]
    /\ ret.value.peakValue = call.peakValue
    /\ ret.value.lastUpdated = NormalizedDate(call.date)

\* C3: a Deadlock command of the documented form parses to a record with
\* heroName = hero, currentRank = {curRank, curTier}, currentValue = curValue
\* and the normalized date, and the record has no peakRank or peakValue.
C3_DocumentedDeadlockParses ==
  (ret.done /\ call.form = "documented" /\ call.game = "DEADLOCK") =>
    /\ ret.value # Null
    /\ ret.value.heroName = call.label
    /\ ret.value.currentRank = [rank |-> call.curRank, tier |-> call.curTier]
    /\ ret.value.currentValue = call.curValue
    /\ ret.value.lastUpdated = NormalizedDate(call.date)
    /\ "peakRank" \notin DOMAIN ret.value
    /\ "peakValue" \notin DOMAIN ret.value

\* C17: a command whose rank names (names of the game's rank list, one word
\* or several) are directly followed by their numeric value parses, and the
\* current rank (and in two-rank games the peak rank) is recognised as the
\* rank named by the consecutive non-numeric tokens at the rank position.
C17_RankPhraseRecognised ==
  (/\ ret.done
   /\ call.form = "tierless"
   /\ (\E i \in DOMAIN RanksOf(call.game) : RanksOf(call.game)[i] = call.curRank)
   /\ (call.game \in TwoRankGames => (\E i \in DOMAIN RanksOf(call.game) : RanksOf(call.game)[i] = call.peakRank))) =>
    /\ ret.value # Null
    /\ ret.value.currentRank.rank = call.curRank
    /\ (call.game \in TwoRankGames => ret.value.peakRank.rank = call.peakRank)

\* C21: a well-formed command preceded by other text in the same message is
\* routed to the parser of the game whose tag it holds and parses to the
\* record of that command; a message that holds none of the three tags
\* yields no match.
C21_TagRouting ==
  ret.done =>
    /\ call.form = "prefixed" =>
         /\ ret.value # Null
         /\ ret.value.game = call.game
         /\ ret.value.userId = call.userId
         /\ ret.value.currentRank.rank = call.curRank
         /\ ret.value.currentValue = call.curValue
    /\ (\A g \in TwoRankGames \cup {"DEADLOCK"} : ~Includes(call.content, TagOf(g))) =>
         ret.value = Null

-----------------------------------------------------------------------------
(* Specification SpecBatch: calls of parseMultipleUpdates *)

\* Longest batch of fetched messages.
MaxBatch == 3

BatchContents ==
  {"LB_UPDATE_MR: <@111> Duelist Diamond 2450 Grandmaster 2610 2026-02-14",
   "LB_UPDATE_OW: <@333> Tank Diamond 3200 Master 3400 2026-02-14",
   "LB_UPDATE_DL: <@222> Haze Archon 1200 2026-02-15",
   "LB_UPDATE_MR: @Turbo Duelist Diamond 2450 Grandmaster 2610 2026-02-14",
   "gg wp"}

\* The message objects of a batch: ids and timestamps grow with the position.
MessagesOf(contents) ==
  [i \in 1..Len(contents) |->
     [id |-> NumToStr(1000 + i), content |-> contents[i],
      createdTimestamp |-> i, author |-> "user"]]

InitBatch ==
  /\ call \in {[op |-> "parseMultipleUpdates", messages |-> MessagesOf(cs),
                gameType |-> g] :
                 cs \in SeqsOf(BatchContents, 0, MaxBatch),
                 g \in {"MARVEL_RIVALS", "DEADLOCK", NullStr}}
  /\ ret = [done |-> FALSE]
  /\ legacyDate \in LegacyOutcomes
  /\ SyncIdle

CallParseBatch ==
  /\ ~ret.done
  /\ ret' = [done |-> TRUE, value |-> parseMultipleUpdates(call.messages, call.gameType)]
  /\ CallIdle

SpecBatch == InitBatch /\ [][CallParseBatch]_vars

\* A content carries a command tag.
HasTag(content) == \E g \in AllGames : Includes(content, TagOf(g))

\* The positions of the batch whose message parses to an update of the
\* requested game (of any game when none is requested).
AcceptedPositions ==
  {i \in 1..Len(call.messages) :
     /\ parseMessage(call.messages[i].content) # Null
     /\ call.gameType \in {NullStr, parseMessage(call.messages[i].content).game}}

\* The positions whose message carries a tag and does not parse.
MalformedPositions ==
  {i \in 1..Len(call.messages) :
     /\ HasTag(call.messages[i].content)
     /\ parseMessage(call.messages[i].content) = Null}

\* The elements of seq at the positions of S, in order.
RECURSIVE Picked(_, _, _)
Picked(seq, S, i) ==
  IF i > Len(seq) THEN <<>>
  ELSE (IF i \in S THEN <<seq[i]>> ELSE <<>>) \o Picked(seq, S, i + 1)

\* C9: parseMultipleUpdates counts every message once among successful,
\* failed and skipped; the commands of the requested game that parse are in
\* successful with message id and timestamp, in input order; a message with a
\* command tag that does not parse is in failed with its id, content and a
\* reason; skipped counts only the other messages.
C9_BatchPartition ==
  ret.done =>
    /\ Len(ret.value.successful) + Len(ret.value.failed) + ret.value.skipped
         = Len(call.messages)
    /\ [i \in 1..Len(ret.value.successful) |->
          [id |-> ret.value.successful[i].messageId,
           createdTimestamp |-> ret.value.successful[i].timestamp]]
         = [i \in 1..Cardinality(AcceptedPositions) |->
              [id |-> Picked(call.messages, AcceptedPositions, 1)[i].id,
               createdTimestamp |->
                 Picked(call.messages, AcceptedPositions, 1)[i].createdTimestamp]]
    /\ [i \in 1..Len(ret.value.failed) |->
          [id |-> ret.value.failed[i].messageId, content |-> ret.value.failed[i].content]]
         = [i \in 1..Cardinality(MalformedPositions) |->
              [id |-> Picked(call.messages, MalformedPositions, 1)[i].id,
               content |-> Picked(call.messages, MalformedPositions, 1)[i].content]]
    /\ \A i \in 1..Len(ret.value.failed) : ret.value.failed[i].reason # ""
    /\ ret.value.skipped
         = Len(call.messages) - Cardinality(AcceptedPositions)
             - Cardinality(MalformedPositions)

-----------------------------------------------------------------------------
(* Player records as the command parsers build them *)

TwoRankPlayer(game, userId, role, cr, ct, cv, pr, pt, pv, date) ==
  [game |-> game, userId |-> userId, role |-> role,
   currentRank |-> [rank |-> cr, tier |-> ct], currentValue |-> cv,
   peakRank |-> [rank |-> pr, tier |-> pt], peakValue |-> pv,
   lastUpdated |-> date, rawMention |-> "<@" \o userId \o ">"]

DeadlockPlayer(userId, hero, cr, ct, cv, date) ==
  [game |-> "DEADLOCK", userId |-> userId, heroName |-> hero,
   currentRank |-> [rank |-> cr, tier |-> ct], currentValue |-> cv,
   lastUpdated |-> date, rawMention |-> "<@" \o userId \o ">"]

Day14 == "2026-02-14T00:00:00.000Z"

Day15 == "2026-02-15T10:30:00.000Z"

\* All sequences of lo..hi different elements of S.
DistinctSeqsOf(S, lo, hi) ==
  {q \in SeqsOf(S, lo, hi) : \A i, j \in 1..Len(q) : i # j => q[i] # q[j]}

\* The fields of a player that the stored state keeps.
StoredFields(player) ==
  IF "peakRank" \in DOMAIN player
  THEN [userId |-> player.userId, label |-> player.role,
        currentRank |-> player.currentRank, currentValue |-> player.currentValue,
        peakRank |-> player.peakRank, peakValue |-> player.peakValue,
        lastUpdated |-> player.lastUpdated]
  ELSE [userId |-> player.userId, label |-> player.heroName,
        currentRank |-> player.currentRank, currentValue |-> player.currentValue,
        lastUpdated |-> player.lastUpdated]

-----------------------------------------------------------------------------
(* Specification SpecCodec: encodeState, then decodeState of its result *)

\* Longest player list that is encoded.
MaxCodecPlayers == 2

CodecPlayers(game) ==
  IF game = "DEADLOCK"
  THEN {DeadlockPlayer("111", "Haze", "Archon", 4, 1200, Day14),
        DeadlockPlayer("222", "Lady Geist", "Eternus", 1, 0, Day15),
        DeadlockPlayer("333", "Haze", "Phantom Ascendant", 2, 1500, Day14)}
  ELSE {TwoRankPlayer(game, "111", "Duelist", "Diamond", 2, 2450, "Grandmaster", 1, 2610,
                      Day14),
        TwoRankPlayer(game, "222", "Tank", "Gold", 3, 0, "Platinum", 1, 1800, Day15),
        TwoRankPlayer(game, "333", "Duelist", "Diamond", 1, 2450, MultiWordRank(game), 1,
                      2610, Day14)}

InitCodec ==
  /\ call \in UNION {{[op |-> "encodeState", gameType |-> g, cursor |-> c,
                       players |-> ps] :
                         c \in {NullStr, "1001"},
                         ps \in DistinctSeqsOf(CodecPlayers(g), 0, MaxCodecPlayers)} :
                     g \in AllGames}
  /\ ret = [done |-> FALSE, encoded |-> NullStr]
  /\ legacyDate = NullStr
  /\ SyncIdle

CallEncodeState ==
  /\ ~ret.done
  /\ ret.encoded = NullStr
  /\ ret' = [done |-> FALSE,
             encoded |-> encodeState(call.cursor, call.players, call.gameType)]
  /\ CallIdle

CallDecodeState ==
  /\ ~ret.done
  /\ ret.encoded # NullStr
  /\ ret' = [done |-> TRUE, encoded |-> ret.encoded, value |-> decodeState(ret.encoded)]
  /\ CallIdle

SpecCodec == InitCodec /\ [][CallEncodeState \/ CallDecodeState]_vars

\* C1: decodeState(encodeState(cursor, players, gameType)) has the same
\* gameType, the same cursor and, player by player, the same userId, label,
\* currentRank, currentValue, peakRank, peakValue and lastUpdated; players
\* with a multi-word rank name included.
C1_RoundTrip ==
  ret.done =>
    /\ ret.value.gameType = call.gameType
    /\ ret.value.lastProcessedMessageId = call.cursor
    /\ Len(ret.value.players) = Len(call.players)
    /\ \A i \in 1..Len(call.players) :
         [f \in DOMAIN StoredFields(call.players[i]) |->
            IF f = "label"
            THEN IF "role" \in DOMAIN ret.value.players[i]
                 THEN ret.value.players[i].role ELSE ret.value.players[i].heroName
            ELSE ret.value.players[i][f]]
           = StoredFields(call.players[i])

-----------------------------------------------------------------------------
(* Specification SpecMerge: calls of upsertPlayer *)

\* Longest stored player list of a call of upsertPlayer.
MaxMergePlayers == 2

MergeUsers == {"111", "222", "333"}

\* One second before the stored date, the stored date, one second after it.
MergeDates ==
  {"2026-02-13T23:59:59.000Z", "2026-02-14T00:00:00.000Z", "2026-02-14T00:00:01.000Z"}

\* The stored record of a user, and the records that may come in.
StoredPlayer(userId) == DeadlockPlayer(userId, "Haze", "Archon", 1, 1200, Day14)

IncomingPlayers ==
  {DeadlockPlayer(u, "Haze", "Oracle", 1, v, d) :
     u \in MergeUsers, v \in {1200, 900}, d \in MergeDates}

InitMerge ==
  /\ call \in {[op |-> "upsertPlayer",
                players |-> [i \in 1..Len(us) |-> StoredPlayer(us[i])],
                newPlayerData |-> p] :
                 us \in DistinctSeqsOf(MergeUsers, 0, MaxMergePlayers),
                 p \in IncomingPlayers}
  /\ ret = [done |-> FALSE]
  /\ legacyDate = NullStr
  /\ SyncIdle

CallUpsertPlayer ==
  /\ ~ret.done
  /\ ret' = [done |-> TRUE, value |-> upsertPlayer(call.players, call.newPlayerData)]
  /\ CallIdle

SpecMerge == InitMerge /\ [][CallUpsertPlayer]_vars

\* The positions of the stored list that hold the incoming user.
StoredPositions ==
  {i \in 1..Len(call.players) : call.players[i].userId = call.newPlayerData.userId}

\* The text of an instant of MergeDates orders as the instant does.
Earlier(d, e) ==
  \/ d = "2026-02-13T23:59:59.000Z" /\ e # d
  \/ d = "2026-02-14T00:00:00.000Z" /\ e = "2026-02-14T00:00:01.000Z"

\* C4: upsertPlayer inserts a record of a user that is not stored and reports
\* applied; for a stored user, an incoming record strictly earlier than the
\* stored one leaves every record unchanged and reports stale; an incoming
\* record later than or exactly as old as the stored one replaces it whole
\* and reports applied, every other record staying as it was.
C4_UpsertResolution ==
  ret.done =>
    IF StoredPositions = {}
      THEN /\ ret.value.updated
           /\ ret.value.players = Append(call.players, call.newPlayerData)
    ELSE \A i \in StoredPositions :
           IF Earlier(call.newPlayerData.lastUpdated, call.players[i].lastUpdated)
             THEN /\ ~ret.value.updated
                  /\ ret.value.players = call.players
           ELSE /\ ret.value.updated
                /\ ret.value.players = [call.players EXCEPT ![i] = call.newPlayerData]

\* C4 witness: a record exactly as old as the stored one has replaced it.
C4_Witness ==
  /\ ret.done
  /\ Len(call.players) = 2
  /\ call.players[2].userId = call.newPlayerData.userId
  /\ call.newPlayerData.lastUpdated = call.players[2].lastUpdated
  /\ call.newPlayerData.currentValue = 900
  /\ ret.value.updated
  /\ ret.value.players[2] = call.newPlayerData
  /\ ret.value.players[1] = call.players[1]

-----------------------------------------------------------------------------
(* Specification SpecSort: calls of sortPlayers *)

\* Longest player list that is sorted.
MaxSortPlayers == 3

\* A record without one of its fields.
Without(rec, name) == [f \in (DOMAIN rec) \ {name} |-> rec[f]]

\* A rank as decodePlayerData reads a multi-word rank name: the first word,
\* and no tier.
BrokenRank(word) == [rank |-> word, tier |-> NaN]

SortPlayersOf(game) ==
  IF game = "DEADLOCK"
  THEN {DeadlockPlayer("201", "Haze", "Archon", 4, 1200, Day14),
        DeadlockPlayer("202", "Haze", "Archon", 4, 1100, Day14),
        DeadlockPlayer("203", "Haze", "Archon", 6, 1200, Day14),
        DeadlockPlayer("204", "Haze", "Archon", 1, 1300, Day14),
        DeadlockPlayer("205", "Haze", "Oracle", 2, 1500, Day15),
        DeadlockPlayer("206", "Haze", "Archon", 4, 1200, Day15),
        [DeadlockPlayer("207", "Haze", "Phantom", 1, 1000, Day14)
           EXCEPT !.currentRank = BrokenRank("Phantom")],
        Without(DeadlockPlayer("208", "Haze", "Archon", 1, 1000, Day14), "currentRank")}
  ELSE {TwoRankPlayer(game, "101", "Duelist", "Diamond", 2, 2450, "Grandmaster", 1, 2610,
                      Day14),
        TwoRankPlayer(game, "102", "Duelist", "Diamond", 2, 2300, "Grandmaster", 1, 2610,
                      Day14),
        TwoRankPlayer(game, "103", "Duelist", "Platinum", 1, 2100, "Diamond", 3, 2300,
                      Day15),
        TwoRankPlayer(game, "104", "Duelist", "Diamond", 2, 2450, "Grandmaster", 2, 2610,
                      Day14),
        TwoRankPlayer(game, "105", "Duelist", "Diamond", 2, 2450, "Grandmaster", 1, 2500,
                      Day14),
        TwoRankPlayer(game, "106", "Duelist", "Diamond", 2, 2450, "Grandmaster", 1, 2610,
                      Day15),
        TwoRankPlayer(game, "107", "Duelist", "Diamond", 1, 2600, "Grandmaster", 1, 2610,
                      Day14),
        [TwoRankPlayer(game, "108", "Duelist", "One", 1, 2000, "Grandmaster", 1, 2610, Day14)
           EXCEPT !.currentRank = BrokenRank(IF game = "OVERWATCH" THEN "Top" ELSE "One")],
        Without(TwoRankPlayer(game, "109", "Duelist", "Diamond", 1, 2000, "Grandmaster", 1,
                              2610, Day14), "currentRank")}

InitSort ==
  /\ call \in UNION {{[op |-> "sortPlayers", gameType |-> g, players |-> ps] :
                         ps \in DistinctSeqsOf(SortPlayersOf(g), 0, MaxSortPlayers)} :
                     g \in AllGames}
  /\ ret = [done |-> FALSE]
  /\ legacyDate = NullStr
  /\ SyncIdle

CallSortPlayers ==
  /\ ~ret.done
  /\ ret' = [done |-> TRUE, value |-> sortPlayers(call.players, call.gameType)]
  /\ CallIdle

SpecSort == InitSort /\ [][CallSortPlayers]_vars

\* A player has a current rank of the game.
Ranked(player, game) ==
  /\ "currentRank" \in DOMAIN player
  /\ \E k \in 1..Len(RanksOf(game)) : RanksOf(game)[k] = player.currentRank.rank

\* The place of a rank name in the rank list of the game, counted from 0.
PlaceOf(name, game) == (CHOOSE k \in 1..Len(RanksOf(game)) : RanksOf(game)[k] = name) - 1

\* The sort key of a rank: name place times tier count plus the tier turned
\* round; the sentinel for a rank that is absent or not of the game.
KeyOf(player, field, game) ==
  IF field \notin DOMAIN player
       \/ ~\E k \in 1..Len(RanksOf(game)) : RanksOf(game)[k] = player[field].rank
    THEN 999999
  ELSE PlaceOf(player[field].rank, game) * MaxTierOf(game)
         + (MaxTierOf(game) - player[field].tier + 1)

\* a comes strictly before b in the order of the claim: current key
\* descending, current value ascending, then for a two-rank game peak key
\* descending and peak value ascending, then the newer record first.
StrictlyBefore(a, b, game) ==
  \/ KeyOf(a, "currentRank", game) > KeyOf(b, "currentRank", game)
  \/ /\ KeyOf(a, "currentRank", game) = KeyOf(b, "currentRank", game)
     /\ \/ a.currentValue < b.currentValue
        \/ /\ a.currentValue = b.currentValue
           /\ IF game \in TwoRankGames
              THEN \/ KeyOf(a, "peakRank", game) > KeyOf(b, "peakRank", game)
                   \/ /\ KeyOf(a, "peakRank", game) = KeyOf(b, "peakRank", game)
                      /\ \/ a.peakValue < b.peakValue
                         \/ /\ a.peakValue = b.peakValue
                            /\ a.lastUpdated = Day15 /\ b.lastUpdated = Day14
              ELSE a.lastUpdated = Day15 /\ b.lastUpdated = Day14

C7_UnknownRankLast ==
  ret.done =>
    \A i, j \in 1..Len(ret.value) :
      (~Ranked(ret.value[i], call.gameType) /\ Ranked(ret.value[j], call.gameType))
        => j < i

\* C8: of two Deadlock players with the same rank name, sortPlayers places
\* the one with the higher tier number first.
C8_DeadlockHigherTierFirst ==
  (ret.done /\ call.gameType = "DEADLOCK") =>
    \A i, j \in 1..Len(ret.value) :
      ( /\ Ranked(ret.value[i], "DEADLOCK") /\ Ranked(ret.value[j], "DEADLOCK")
        /\ ret.value[i].currentRank.rank = ret.value[j].currentRank.rank
        /\ ret.value[i].currentRank.tier > ret.value[j].currentRank.tier ) => i < j

-----------------------------------------------------------------------------
(* Specification Spec: users post in the game channels, sync cycles run *)

\* Messages posted in all channels together.
MaxPosts == 3

\* The games that have a channel and a webhook configured.
ConfiguredGames == {"MARVEL_RIVALS", "DEADLOCK"}

\* What users post in the channel of a game.
PostContents(game) ==
  IF game = "MARVEL_RIVALS"
  THEN {"LB_UPDATE_MR: <@111> Duelist Diamond 2450 Grandmaster 2610 2026-02-15",
        "LB_UPDATE_MR: <@111> Duelist Platinum 2100 One Above All 2610 2026-02-14",
        "gg wp"}
  ELSE {"LB_UPDATE_DL: <@222> Haze Archon 1200 2026-02-15"}

\* The clock of a cycle, as toISOString and as toUTCString write it.
CycleTime == "2026-02-16T12:00:00.000Z"

CycleTimeUtc == "Mon, 16 Feb 2026 12:00:00 GMT"

\* The number of messages posted so far.
RECURSIVE PostedIn(_)
PostedIn(games) ==
  IF games = {} THEN 0
  ELSE LET g == CHOOSE x \in games : TRUE
       IN  Len(channel[g]) + PostedIn(games \ {g})

Init ==
  /\ call = [op |-> "syncAll"]
  /\ ret = [done |-> FALSE]
  /\ legacyDate = NullStr
  /\ channel = [g \in ConfiguredGames |-> <<>>]
  /\ published = [g \in ConfiguredGames |-> NullStr]
  /\ syncLog = [g \in ConfiguredGames |-> [ran |-> FALSE]]

\* A user posts a message in the channel of a game; ids and timestamps grow
\* with the time of posting.
Post(game, content) ==
  /\ PostedIn(ConfiguredGames) < MaxPosts
  /\ channel' = [channel EXCEPT ![game] =
                   Append(@, [id |-> NumToStr(1001 + PostedIn(ConfiguredGames)),
                              content |-> content,
                              createdTimestamp |-> 1 + PostedIn(ConfiguredGames),
                              author |-> "user"])]
  /\ UNCHANGED <<call, ret, legacyDate, published, syncLog>>

\* syncGame(game) runs: the persistent message is created or edited unless
\* there are no new messages, and the cycle is logged.
SyncGame(game) ==
  /\ \E r \in {syncGame(game, published[game], channel[game], CycleTime, CycleTimeUtc)} :
       /\ published' = IF r.publish THEN [published EXCEPT ![game] = r.content]
                       ELSE published
       /\ syncLog' = [syncLog EXCEPT ![game] = r.log]
  /\ UNCHANGED <<call, ret, legacyDate, channel>>

Next ==
  \/ \E game \in ConfiguredGames : \E content \in PostContents(game) : Post(game, content)
  \/ \E game \in ConfiguredGames : SyncGame(game)

Spec == Init /\ [][Next]_vars

\* The message id of the last logged outcome, at or before position i, of an
\* update that was applied; the cursor the cycle started from when none was.
RECURSIVE LastIdWhere(_, _, _)
LastIdWhere(outcomes, i, start) ==
  IF i = 0 THEN start
  ELSE IF outcomes[i].updated THEN outcomes[i].messageId
  ELSE LastIdWhere(outcomes, i - 1, start)

\* The cursor a published cycle of the game wrote into the persistent message.
WrittenCursor(game) == decodeState(published[game]).lastProcessedMessageId

\* C5 (as amended): after a sync cycle has folded upsertPlayer over the
\* successfully parsed updates of the game in order, the cursor it writes is
\* the message id of the last of these updates, whether its upsert result was
\* applied or stale; with no such update the cursor stays the decoded one.
C5_CursorIsLastParsed ==
  \A game \in ConfiguredGames :
    (syncLog[game].ran /\ syncLog[game].published) =>
      /\ [i \in 1..Len(syncLog[game].outcomes) |-> syncLog[game].outcomes[i].messageId]
           = syncLog[game].parsed
      /\ syncLog[game].cursor
           = IF syncLog[game].parsed = <<>> THEN syncLog[game].cursorBefore
             ELSE syncLog[game].parsed[Len(syncLog[game].parsed)]
      /\ WrittenCursor(game) = syncLog[game].cursor

\* C5 witness: a cycle applied message 1001 and found message 1002 stale, and
\* wrote 1002 as the cursor.
C5_Witness ==
  /\ syncLog["MARVEL_RIVALS"].ran
  /\ syncLog["MARVEL_RIVALS"].published
  /\ syncLog["MARVEL_RIVALS"].outcomes
       = <<[messageId |-> "1001", userId |-> "111", updated |-> TRUE],
           [messageId |-> "1002", userId |-> "111", updated |-> FALSE]>>
  /\ WrittenCursor("MARVEL_RIVALS") = "1002"

\* C5 (as claimed): the cursor after a cycle is the message id of the last
\* update whose upsert result was applied; a stale update does not advance it.
C5_CursorIsLastApplied ==
  \A game \in ConfiguredGames :
    (syncLog[game].ran /\ syncLog[game].published) =>
      /\ syncLog[game].cursor
           = LastIdWhere(syncLog[game].outcomes, Len(syncLog[game].outcomes),
                         syncLog[game].cursorBefore)
      /\ WrittenCursor(game) = syncLog[game].cursor

-----------------------------------------------------------------------------
(* Specification SpecBootstrap: decodeState on arbitrary message texts *)

\* Longest text that is decoded, in pieces.
MaxPieces == 3

\* The pieces the decoded texts are made of; no two of them join into a
\* marker.
TextPieces ==
  {DATA_START_MARKER, DATA_END_MARKER, "random unrelated text", "[DATA:v2]",
   "\nGAME:DEADLOCK\nLAST:1001\n",
   "111|Haze|Archon 4|1200|2026-02-14T00:00:00.000Z\n"}

InitBootstrap ==
  /\ call \in {[op |-> "decodeState", pieces |-> ps, text |-> Join(ps, "")] :
                 ps \in SeqsOf(TextPieces, 0, MaxPieces)}
  /\ ret = [done |-> FALSE]
  /\ legacyDate = NullStr
  /\ SyncIdle

CallDecodeText ==
  /\ ~ret.done
  /\ ret' = [done |-> TRUE, value |-> decodeState(call.text)]
  /\ CallIdle

SpecBootstrap == InitBootstrap /\ [][CallDecodeText]_vars

\* The text holds the marker.
HasPiece(marker) == \E i \in 1..Len(call.pieces) : call.pieces[i] = marker

\* C11: for every text in which the start marker or the end marker is
\* missing, the empty text included, decodeState returns the state with no
\* game type, no cursor and no players.
C11_BootstrapDecode ==
  (ret.done /\ (~HasPiece(DATA_START_MARKER) \/ ~HasPiece(DATA_END_MARKER)))
    => ret.value = EmptyState

\* C11 witness: a text with the start marker, a header and a player line but
\* no end marker has been decoded to the empty state.
C11_Witness ==
  /\ ret.done
  /\ call.pieces = <<DATA_START_MARKER, "\nGAME:DEADLOCK\nLAST:1001\n",
                     "111|Haze|Archon 4|1200|2026-02-14T00:00:00.000Z\n">>
  /\ ret.value = EmptyState

-----------------------------------------------------------------------------
(* Specification SpecRerun: one sync cycle run twice on the same inputs, and
   one update folded twice into a player list *)

\* Longest batch of new messages of a re-run cycle.
MaxRerunMessages == 2

\* The clock of the second run.
RerunTime == "2026-02-16T13:00:00.000Z"

RerunTimeUtc == "Mon, 16 Feb 2026 13:00:00 GMT"

\* The persistent message a re-run cycle starts from: none, or the state of
\* an earlier cycle.
RerunBlobs(game) ==
  {NullStr,
   encodeState("1000",
               IF game = "DEADLOCK"
               THEN <<DeadlockPlayer("222", "Haze", "Oracle", 1, 1500, Day14),
                      DeadlockPlayer("444", "Haze", "Archon", 1, 1300, Day14)>>
               ELSE <<TwoRankPlayer(game, "111", "Duelist", "Gold", 1, 1900, "Diamond", 1,
                                    2500, Day14),
                      TwoRankPlayer(game, "444", "Tank", "Diamond", 1, 2450, "Diamond", 1,
                                    2500, Day14)>>,
               game)}

InitRerun ==
  /\ call \in UNION {{[op |-> "syncGame", game |-> g, blob |-> b,
                       messages |-> MessagesOf(cs)] :
                         b \in RerunBlobs(g),
                         cs \in SeqsOf(PostContents("MARVEL_RIVALS")
                                         \cup PostContents("DEADLOCK"),
                                       0, MaxRerunMessages)} :
                     g \in ConfiguredGames}
             \cup {[op |-> "upsertPlayer",
                    players |-> [i \in 1..Len(us) |-> StoredPlayer(us[i])],
                    newPlayerData |-> p] :
                     us \in DistinctSeqsOf(MergeUsers, 0, MaxMergePlayers),
                     p \in IncomingPlayers}
  /\ ret = [done |-> FALSE, runs |-> <<>>]
  /\ legacyDate = NullStr
  /\ SyncIdle

\* The cycle runs on the blob and the messages.
RunCycle ==
  /\ call.op = "syncGame"
  /\ ret.runs = <<>>
  /\ ret' = [done |-> FALSE,
             runs |-> <<syncGame(call.game, call.blob, call.messages,
                                 CycleTime, CycleTimeUtc)>>]
  /\ CallIdle

\* The cycle runs again, an hour later, on the same blob and messages.
RerunCycle ==
  /\ call.op = "syncGame"
  /\ Len(ret.runs) = 1
  /\ ret' = [done |-> TRUE,
             runs |-> Append(ret.runs, syncGame(call.game, call.blob, call.messages,
                                                RerunTime, RerunTimeUtc))]
  /\ CallIdle

\* The update is folded into the player list.
FoldUpdate ==
  /\ call.op = "upsertPlayer"
  /\ ret.runs = <<>>
  /\ ret' = [done |-> FALSE,
             runs |-> <<upsertPlayer(call.players, call.newPlayerData)>>]
  /\ CallIdle

\* The same update is folded into the resulting list.
FoldUpdateAgain ==
  /\ call.op = "upsertPlayer"
  /\ Len(ret.runs) = 1
  /\ ret' = [done |-> TRUE,
             runs |-> Append(ret.runs,
                             upsertPlayer(ret.runs[1].players, call.newPlayerData))]
  /\ CallIdle

SpecRerun == InitRerun /\ [][RunCycle \/ RerunCycle \/ FoldUpdate \/ FoldUpdateAgain]_vars

\* The durable state in a published text: the text from the start marker on.
DataBlockOf(content) ==
  IF content = NullStr THEN NullStr
  ELSE Drop(content, IndexOf(content, DATA_START_MARKER) - 1)

-----------------------------------------------------------------------------
(* Specification SpecChannel: two users, bystanders and commands of another
   game in the channel of one game, sync cycles of that game *)

\* The game whose channel is watched.
ChannelGame == "MARVEL_RIVALS"

\* What is posted in the channel: updates of two users (one with a
\* multi-word peak rank), a remark, a command with an invalid mention and a
\* command of another game.
ChannelContents ==
  {"LB_UPDATE_MR: <@111> Duelist Diamond 2450 Grandmaster 2610 2026-02-15",
   "LB_UPDATE_MR: <@111> Duelist Platinum 2100 One Above All 2610 2026-02-14",
   "LB_UPDATE_MR: <@333> Tank Gold 1900 Diamond 2500 2026-02-14",
   "gg wp",
   "LB_UPDATE_MR: @Turbo Duelist Diamond 2450 Grandmaster 2610 2026-02-14",
   "LB_UPDATE_DL: <@222> Haze Archon 1200 2026-02-15"}

NextChannel ==
  \/ \E content \in ChannelContents : Post(ChannelGame, content)
  \/ SyncGame(ChannelGame)

SpecChannel == Init /\ [][NextChannel]_vars

\* The players of the state the next cycle of the game starts from.
StoredPlayers(game) == CurrentStateOf(published[game]).players

\* C13: in every state reached from the bootstrap state by sync cycles, the
\* player list of a game holds at most one record per userId.
C13_UniquePlayer ==
  \A game \in ConfiguredGames :
    LET players == StoredPlayers(game)
    IN  \A i, j \in 1..Len(players) : i # j => players[i].userId # players[j].userId

\* C13 witness: a second cycle has applied an update of a user who was
\* already stored, next to another stored user.
C13_Witness ==
  /\ syncLog[ChannelGame].ran
  /\ syncLog[ChannelGame].published
  /\ syncLog[ChannelGame].cursorBefore # NullStr
  /\ syncLog[ChannelGame].updated >= 1
  /\ Len(StoredPlayers(ChannelGame)) = 2
  /\ \E i \in 1..Len(syncLog[ChannelGame].outcomes) :
       /\ syncLog[ChannelGame].outcomes[i].userId = "111"
       /\ syncLog[ChannelGame].outcomes[i].updated
  /\ channel[ChannelGame][1].content
       = "LB_UPDATE_MR: <@111> Duelist Platinum 2100 One Above All 2610 2026-02-14"

\* A rank object of the game: a name of the game's rank list with an integer
\* tier within 1..maxTier.
ValidRankOf(game, rankObj) ==
  /\ \E i \in DOMAIN RanksOf(game) : RanksOf(game)[i] = rankObj.rank
  /\ rankObj.tier \in 1..MaxTierOf(game)

\* C18: in every state reached by sync cycles (parse, upsert, sort, encode,
\* decode of the encoded blob in the next cycle) every stored player's
\* currentRank, and in two-rank games peakRank, has a name of the game's rank
\* list and an integer tier within 1..maxTier.
C18_RankValidity ==
  \A game \in ConfiguredGames :
    LET players == StoredPlayers(game)
    IN  \A i \in 1..Len(players) :
          /\ ValidRankOf(game, players[i].currentRank)
          /\ game \in TwoRankGames => ValidRankOf(game, players[i].peakRank)

-----------------------------------------------------------------------------
(* Specification SpecAll: syncAll over the configured games, some of them
   inaccessible; then over the accessible games alone *)

\* Longest channel of a game when syncAll runs.
MaxAllMessages == 1

\* The update posted in the channel of a game.
UpdateOf(game) ==
  IF game = "MARVEL_RIVALS"
    THEN "LB_UPDATE_MR: <@111> Duelist Diamond 2450 Grandmaster 2610 2026-02-15"
  ELSE IF game = "OVERWATCH"
    THEN "LB_UPDATE_OW: <@333> Tank Diamond 3200 Master 3400 2026-02-14"
  ELSE "LB_UPDATE_DL: <@222> Haze Archon 1200 2026-02-15"

\* The configured games in the order of loadGameConfigurations.
GameOrder == <<"MARVEL_RIVALS", "OVERWATCH", "DEADLOCK">>

\* The channel of a game when syncAll runs: empty for a game that is not
\* configured.
ChannelsOf(game, games) ==
  IF \E i \in 1..Len(games) : games[i] = game
  THEN {MessagesOf(cs) : cs \in SeqsOf({UpdateOf(game)}, 0, MaxAllMessages)}
  ELSE {<<>>}

\* The persistent messages when syncAll runs: the first game has a stored
\* state, the others none yet.
StoredBlobs ==
  [g \in AllGames |->
     IF g = "MARVEL_RIVALS" THEN CHOOSE b \in RerunBlobs(g) : b # NullStr ELSE NullStr]

InitAll ==
  /\ call \in UNION {{[op |-> "syncAll", games |-> Picked(GameOrder, P, 1),
                       inaccessible |-> F] :
                         F \in SUBSET {GameOrder[i] : i \in P}} :
                     P \in (SUBSET (1..3)) \ {{}}}
  /\ channel \in {f \in [AllGames -> UNION {ChannelsOf(g, GameOrder) : g \in AllGames}] :
                    \A g \in AllGames : f[g] \in ChannelsOf(g, call.games)}
  /\ published = StoredBlobs
  /\ ret = [done |-> FALSE, runs |-> <<>>]
  /\ legacyDate = NullStr
  /\ syncLog = <<>>

\* syncAll runs over the configured games.
RunSyncAll ==
  /\ ret.runs = <<>>
  /\ \E r \in {syncAll(call.games, call.inaccessible, published, channel,
                       CycleTime, CycleTimeUtc)} :
       /\ published' = r.published
       /\ ret' = [done |-> FALSE, before |-> published, runs |-> <<r>>]
  /\ UNCHANGED <<call, legacyDate, channel, syncLog>>

\* The positions of the configured games that are accessible.
AccessiblePositions == {i \in 1..Len(call.games) : call.games[i] \notin call.inaccessible}

\* syncAll runs from the same persistent messages with the inaccessible games
\* not configured.
RunAccessibleOnly ==
  /\ Len(ret.runs) = 1
  /\ ret' = [done |-> TRUE, before |-> ret.before,
             runs |-> Append(ret.runs,
                             syncAll(Picked(call.games, AccessiblePositions, 1), {},
                                     ret.before, channel, CycleTime, CycleTimeUtc))]
  /\ UNCHANGED <<call, legacyDate, channel, published, syncLog>>

SpecAll == InitAll /\ [][RunSyncAll \/ RunAccessibleOnly]_vars

\* C14: syncAll records one entry per configured game, in order, an error
\* entry exactly for the inaccessible games, whose persistent message stays
\* as it was; the entries and the published messages of the other games are
\* those of syncAll run with the inaccessible games not configured.
C14_GameIsolation ==
  ret.done =>
    /\ Len(ret.runs[1].games) = Len(call.games)
    /\ \A i \in 1..Len(call.games) :
         /\ ret.runs[1].games[i].name = GameName(call.games[i])
         /\ (ret.runs[1].games[i].error # NullStr) <=> (call.games[i] \in call.inaccessible)
    /\ \A g \in call.inaccessible : ret.runs[1].published[g] = ret.before[g]
    /\ Picked(ret.runs[1].games, AccessiblePositions, 1) = ret.runs[2].games
    /\ \A g \in AllGames \ call.inaccessible :
         ret.runs[1].published[g] = ret.runs[2].published[g]
    /\ published = ret.runs[1].published

\* C14 witness: of three configured games the first was inaccessible and
\* kept its persistent message, and the last one published its update.
C14_Witness ==
  /\ ret.done
  /\ call.games = GameOrder
  /\ call.inaccessible = {"MARVEL_RIVALS"}
  /\ ret.runs[1].games[1].error # NullStr
  /\ published["MARVEL_RIVALS"] = ret.before["MARVEL_RIVALS"]
  /\ channel["DEADLOCK"] # <<>>
  /\ ret.before["DEADLOCK"] = NullStr
  /\ published["DEADLOCK"] # NullStr
  /\ ret.runs[1].games[3].updated = 1

-----------------------------------------------------------------------------
(* Specification SpecLive: posts in one channel and sync cycles that run
   again and again, with MAX_MESSAGES_PER_SYNC set to a small number *)

\* The value MAX_MESSAGES_PER_SYNC is set to.
SyncLimit == 2

\* A well-formed command, as the parser accepts it.
LiveCommand == "LB_UPDATE_MR: <@111> Duelist Diamond 2450 Grandmaster 2610 2026-02-15"

\* What is posted around it: a remark, and a command that does not parse.
LiveContents ==
  {LiveCommand, "gg wp",
   "LB_UPDATE_MR: @Turbo Duelist Diamond 2450 Grandmaster 2610 2026-02-14"}

\* Messages posted in the channel.
MaxLivePosts == 4

\* ret.processed collects the message ids of the updates that the cycles so
\* far have logged as applied or as stale; call.synced tells that a cycle has
\* run since the last post.
InitLive ==
  /\ call = [op |-> "syncAll", synced |-> TRUE]
  /\ ret = [done |-> FALSE, processed |-> {}]
  /\ legacyDate = NullStr
  /\ channel = [g \in ConfiguredGames |-> <<>>]
  /\ published = [g \in ConfiguredGames |-> NullStr]
  /\ syncLog = [g \in ConfiguredGames |-> [ran |-> FALSE]]

\* A user posts in a quiet channel: a cycle has run since the previous post.
PostLive(game, content) ==
  /\ call.synced
  /\ Len(channel[game]) < MaxLivePosts
  /\ channel' = [channel EXCEPT ![game] =
                   Append(@, [id |-> NumToStr(1001 + Len(channel[game])),
                              content |-> content,
                              createdTimestamp |-> 1 + Len(channel[game]),
                              author |-> "user"])]
  /\ call' = [call EXCEPT !.synced = FALSE]
  /\ UNCHANGED <<ret, legacyDate, published, syncLog>>

\* syncGame(game) runs with the limit SyncLimit.
SyncGameLimited(game) ==
  /\ \E r \in {syncGameWithLimit(game, published[game], channel[game], SyncLimit,
                                 CycleTime, CycleTimeUtc)} :
       /\ published' = IF r.publish THEN [published EXCEPT ![game] = r.content]
                       ELSE published
       /\ syncLog' = [syncLog EXCEPT ![game] = r.log]
       /\ ret' = [ret EXCEPT !.processed =
                    @ \cup {r.log.outcomes[k].messageId : k \in 1..Len(r.log.outcomes)}]
  /\ call' = [call EXCEPT !.synced = TRUE]
  /\ UNCHANGED <<legacyDate, channel>>

NextLive ==
  \/ \E content \in LiveContents : PostLive(ChannelGame, content)
  \/ SyncGameLimited(ChannelGame)

SpecLive == InitLive /\ [][NextLive]_vars

\* No cycle can do anything any more unless something is posted: a cycle
\* started now fetches no update that parses and leaves the cursor where it
\* is, so the next cycle starts from the same cursor and fetches the same
\* messages.
CyclesAtRest ==
  /\ call.synced
  /\ syncLog[ChannelGame].ran
  /\ \E r \in {syncGameWithLimit(ChannelGame, published[ChannelGame],
                                 channel[ChannelGame], SyncLimit,
                                 CycleTime, CycleTimeUtc)} :
       /\ r.log.outcomes = <<>>
       /\ r.log.cursor = r.log.cursorBefore

\* C15: under repeated sync cycles every well-formed command posted in the
\* channel of a game is eventually processed (applied or found stale),
\* whatever remarks and unparseable messages are posted around it; so once
\* the cycles have come to rest no well-formed command of the channel is
\* left unprocessed.
C15_EventuallyProcessed ==
  CyclesAtRest =>
    \A i \in 1..Len(channel[ChannelGame]) :
      channel[ChannelGame][i].content = LiveCommand
        => channel[ChannelGame][i].id \in ret.processed

-----------------------------------------------------------------------------
(* Specification SpecBoard: one user after another joins the leaderboard of
   a game, sync cycles run in between *)

\* Users that post an update.
MaxBoardPosts == 12

\* The Discord id of the k-th user: 18 digits.
BoardUser(k) == "1000000000000000" \o Pad2(k)

\* The update the k-th user posts.
BoardUpdate(k) ==
  "LB_UPDATE_MR: <@" \o BoardUser(k)
    \o "> Duelist Diamond 2450 Grandmaster 2610 2026-02-14"

\* The next user posts their update in the channel of the game.
PostBoard(game) ==
  /\ Len(channel[game]) < MaxBoardPosts
  /\ channel' = [channel EXCEPT ![game] =
                   Append(@, [id |-> NumToStr(1001 + Len(channel[game])),
                              content |-> BoardUpdate(1 + Len(channel[game])),
                              createdTimestamp |-> 1 + Len(channel[game]),
                              author |-> "user"])]
  /\ UNCHANGED <<call, ret, legacyDate, published, syncLog>>

NextBoard == PostBoard(ChannelGame) \/ SyncGame(ChannelGame)

SpecBoard == Init /\ [][NextBoard]_vars

\* C16: after every sync cycle that publishes, the data block of the
\* published message holds one player line for every player of the merged
\* player set of the cycle, also when the message was shortened.
C16_NoStateLoss ==
  \A game \in ConfiguredGames :
    (syncLog[game].ran /\ syncLog[game].published) =>
      Len(StoredPlayers(game)) = syncLog[game].totalPlayers

-----------------------------------------------------------------------------
(* Specification SpecQuiet: users join the leaderboard of a game, then only
   remarks are posted; sync cycles run in between, early and months later *)

\* Users that post an update before the channel turns to remarks.
MaxQuietUsers == 9

\* Messages posted in all.
MaxQuietPosts == 11

\* The clock of the late cycles.
LateTime == "2026-12-20T12:00:00.000Z"

LateTimeUtc == "Sun, 20 Dec 2026 12:00:00 GMT"

\* The update the k-th user posts.
QuietUpdate(k) ==
  "LB_UPDATE_MR: <@" \o BoardUser(k)
    \o "> DuelistMain Diamond 2450 Grandmaster 2610 2026-02-14"

\* The k-th message of the channel.
QuietContent(k) == IF k <= MaxQuietUsers THEN QuietUpdate(k) ELSE "gg wp"

InitQuiet ==
  /\ call = [op |-> "syncAll", now |-> CycleTime, nowUtc |-> CycleTimeUtc]
  /\ ret = [done |-> FALSE, before |-> <<>>]
  /\ legacyDate \in LegacyOutcomes
  /\ channel = [g \in ConfiguredGames |-> <<>>]
  /\ published = [g \in ConfiguredGames |-> NullStr]
  /\ syncLog = [g \in ConfiguredGames |-> [ran |-> FALSE]]

\* The next message is posted in the channel of the game.
PostQuiet(game) ==
  /\ Len(channel[game]) < MaxQuietPosts
  /\ channel' = [channel EXCEPT ![game] =
                   Append(@, [id |-> NumToStr(1001 + Len(channel[game])),
                              content |-> QuietContent(1 + Len(channel[game])),
                              createdTimestamp |-> 1 + Len(channel[game]),
                              author |-> "user"])]
  /\ UNCHANGED <<call, ret, legacyDate, published, syncLog>>

\* Time passes: the cycles from now on run months later.
LaterClock ==
  /\ call.now = CycleTime
  /\ call' = [call EXCEPT !.now = LateTime, !.nowUtc = LateTimeUtc]
  /\ UNCHANGED <<ret, legacyDate, channel, published, syncLog>>

\* One sync cycle of the game at the time of the clock; the players the
\* cycle decoded from the persistent message are kept for comparison.
SyncQuiet(game) ==
  /\ \E r \in {syncGame(game, published[game], channel[game], call.now, call.nowUtc)} :
       /\ published' = IF r.publish THEN [published EXCEPT ![game] = r.content]
                       ELSE published
       /\ syncLog' = [syncLog EXCEPT ![game] = r.log]
  /\ ret' = [done |-> TRUE, before |-> StoredPlayers(game)]
  /\ UNCHANGED <<call, legacyDate, channel>>

NextQuiet == PostQuiet(ChannelGame) \/ LaterClock \/ SyncQuiet(ChannelGame)

SpecQuiet == InitQuiet /\ [][NextQuiet]_vars

\* The userIds of a player list.
UserIdsOf(players) == {players[i].userId : i \in 1..Len(players)}

\* C19: the cursor a cycle writes is the decoded cursor or the id of a
\* message of the channel that is an update of the game, never a remark; and
\* when the batch of a cycle holds no successfully parsed update, the cursor
\* of the published blob equals the cursor decoded from the previous blob and
\* the blob holds the same players as the previous blob.
C19_UnusableMessagesNoEffect ==
  \A game \in ConfiguredGames :
    (syncLog[game].ran /\ syncLog[game].published) =>
      LET now == CurrentStateOf(published[game])
      IN  /\ \/ now.lastProcessedMessageId = syncLog[game].cursorBefore
             \/ \E k \in 1..Len(channel[game]) :
                  /\ channel[game][k].id = now.lastProcessedMessageId
                  /\ k <= MaxQuietUsers
          /\ Len(syncLog[game].parsed) = 0 =>
               /\ now.lastProcessedMessageId = syncLog[game].cursorBefore
               /\ UserIdsOf(now.players) = UserIdsOf(ret.before)

-----------------------------------------------------------------------------
(* Specification SpecFold: upsertPlayer folded over the updates of one user,
   in every order *)

\* Most updates of a fold.
MaxFoldUpdates == 3

FoldUser == "111"

\* The update of the user with the timestamp d; the value tells the updates
\* apart.
FoldUpdateOf(d) ==
  DeadlockPlayer(FoldUser, "Haze", "Oracle", 1,
                 IF d = "2026-02-13T23:59:59.000Z" THEN 900
                 ELSE IF d = "2026-02-14T00:00:00.000Z" THEN 1000 ELSE 1100,
                 d)

InitFold ==
  /\ call \in {[op |-> "upsertPlayer",
                players |-> [i \in 1..Len(us) |-> StoredPlayer(us[i])],
                updates |-> [k \in 1..Len(ds) |-> FoldUpdateOf(ds[k])]] :
                 us \in DistinctSeqsOf(MergeUsers, 0, MaxMergePlayers),
                 ds \in DistinctSeqsOf(MergeDates, 1, MaxFoldUpdates)}
  /\ ret = [done |-> FALSE, folded |-> 0, players |-> call.players, before |-> call.players]
  /\ legacyDate = NullStr
  /\ SyncIdle

\* The next update of the sequence is folded into the list; the list before
\* the call is kept for comparison.
FoldNext ==
  /\ ret.folded < Len(call.updates)
  /\ \E r \in {upsertPlayer(ret.players, call.updates[ret.folded + 1])} :
       ret' = [done |-> ret.folded + 1 = Len(call.updates), folded |-> ret.folded + 1,
               players |-> r.players, before |-> ret.players]
  /\ CallIdle

SpecFold == InitFold /\ [][FoldNext]_vars

\* The updates of the fold, and the one with the greatest timestamp.
FoldUpdates == {call.updates[k] : k \in 1..Len(call.updates)}

GreatestUpdate ==
  CHOOSE u \in FoldUpdates :
    \A v \in FoldUpdates : ~Earlier(u.lastUpdated, v.lastUpdated)

\* The positions of the user in the list the fold started from.
FoldStoredPositions == {i \in 1..Len(call.players) : call.players[i].userId = FoldUser}

\* No user of the list before the last call is missing from the list after
\* it, and no user's lastUpdated is earlier than before.
NothingLostByUpsert ==
  \A i \in 1..Len(ret.before) :
    \E j \in 1..Len(ret.players) :
      /\ ret.players[j].userId = ret.before[i].userId
      /\ ~Earlier(ret.players[j].lastUpdated, ret.before[i].lastUpdated)

\* C20: folding upsertPlayer over updates of one user with pairwise distinct
\* timestamps, in any order, ends with one record of the user: the update
\* with the greatest timestamp, unless the record of the user in the
\* starting list is later than every update, which then stays; after every
\* upsert each user of the list is still there and no lastUpdated is earlier
\* than before.
C20_MergeOrderIndependent ==
  /\ NothingLostByUpsert
  /\ ret.done =>
       \E j \in 1..Len(ret.players) :
         /\ \A k \in 1..Len(ret.players) : ret.players[k].userId = FoldUser <=> k = j
         /\ ret.players[j] =
              IF \E i \in FoldStoredPositions :
                   Earlier(GreatestUpdate.lastUpdated, call.players[i].lastUpdated)
                THEN StoredPlayer(FoldUser)
              ELSE GreatestUpdate

\* C20 witness: three updates were folded into a list that held the user,
\* the latest first and the earliest second, and the latest is the record.
C20_Witness ==
  /\ ret.done
  /\ Len(call.updates) = 3
  /\ call.updates[1].lastUpdated = "2026-02-14T00:00:01.000Z"
  /\ call.updates[2].lastUpdated = "2026-02-13T23:59:59.000Z"
  /\ Len(call.players) = 2
  /\ call.players[2].userId = FoldUser
  /\ ret.players[2] = call.updates[1]
  /\ ret.players[1] = call.players[1]

\* C20 (as claimed): the fold ends with the user's record equal to the
\* update with the greatest timestamp, whatever the starting list holds.
C20_EndsWithGreatestUpdate ==
  /\ NothingLostByUpsert
  /\ ret.done =>
       \E j \in 1..Len(ret.players) :
         /\ ret.players[j].userId = FoldUser
         /\ ret.players[j] = GreatestUpdate

-----------------------------------------------------------------------------
(* Specification SpecLines: decodeState on blobs whose player lines are
   well-formed or malformed *)

\* Most player lines of a decoded blob.
MaxBlobLines == 3

\* The player lines of a blob of the game: a well-formed line, a line with
\* one field too few, and a line whose rank field holds no tier.
BlobLines(game) ==
  IF game = "DEADLOCK"
    THEN {[kind |-> "wellFormed", userId |-> "111",
           text |-> "111|Haze|Archon 4|1200|2026-02-14T00:00:00.000Z"],
          [kind |-> "tooFewFields", userId |-> "222",
           text |-> "222|Haze|Archon 4|1200"],
          [kind |-> "rankWithoutTier", userId |-> "333",
           text |-> "333|Haze|Archon|1200|2026-02-14T00:00:00.000Z"]}
  ELSE {[kind |-> "wellFormed", userId |-> "111",
         text |-> "111|Duelist|Diamond 2|2450|Grandmaster 1|2610|2026-02-14T00:00:00.000Z"],
        [kind |-> "tooFewFields", userId |-> "222",
         text |-> "222|Duelist|Diamond 2|2450|Grandmaster 1|2610"],
        [kind |-> "rankWithoutTier", userId |-> "333",
         text |-> "333|Duelist|Diamond 2|2450|Grandmaster|2610|2026-02-14T00:00:00.000Z"]}

\* The blob with the player lines ls.
BlobOfLines(game, ls) ==
  Join(<<DATA_START_MARKER, "GAME:" \o game, "LAST:1001">>
         \o [i \in 1..Len(ls) |-> ls[i].text] \o <<DATA_END_MARKER>>, "\n")

InitLines ==
  /\ call \in UNION {{[op |-> "decodeState", game |-> g, lines |-> ls,
                       text |-> BlobOfLines(g, ls)] :
                         ls \in SeqsOf(BlobLines(g), 0, MaxBlobLines)} :
                       g \in {"MARVEL_RIVALS", "DEADLOCK"}}
  /\ ret = [done |-> FALSE]
  /\ legacyDate = NullStr
  /\ SyncIdle

SpecLines == InitLines /\ [][CallDecodeText]_vars

\* The userIds of the well-formed lines among ls[i..], in order.
RECURSIVE WellFormedUsers(_, _)
WellFormedUsers(ls, i) ==
  IF i > Len(ls) THEN <<>>
  ELSE IF ls[i].kind = "wellFormed" THEN <<ls[i].userId>> \o WellFormedUsers(ls, i + 1)
  ELSE WellFormedUsers(ls, i + 1)

\* C22: decodeState returns one player for every well-formed player line of
\* the blob, in order, and none for a line with fewer fields than the game
\* requires or with a rank field that holds no numeric tier; every decoded
\* record has numeric tiers.
C22_MalformedLinesDropped ==
  ret.done =>
    /\ [i \in 1..Len(ret.value.players) |-> ret.value.players[i].userId]
         = WellFormedUsers(call.lines, 1)
    /\ \A i \in 1..Len(ret.value.players) :
         /\ ~IsNaN(ret.value.players[i].currentRank.tier)
         /\ call.game \in TwoRankGames => ~IsNaN(ret.value.players[i].peakRank.tier)

-----------------------------------------------------------------------------
(* Specification SpecEmbed: renderLeaderboard on parsed players, then
   decodeState of the whole message and of its data block alone *)

\* Most players of a rendered message.
MaxEmbedPlayers == 2

\* The labels users give in their commands.
EmbedLabels == {"Duelist", "<Tank>", "[DATA:v1]", "[/DATA]"}

EmbedCommand(game, userId, label) ==
  IF game = "DEADLOCK"
    THEN "LB_UPDATE_DL: <@" \o userId \o "> " \o label \o " Archon 1200 2026-02-14"
  ELSE TagOf(game) \o " <@" \o userId \o "> " \o label
         \o " Diamond 2450 Grandmaster 2610 2026-02-14"

\* The commands of one or more users, one command per user.
EmbedCommands(game) ==
  {cs \in SeqsOf({[userId |-> u, label |-> l, content |-> EmbedCommand(game, u, l)] :
                    u \in {"111", "222"}, l \in EmbedLabels}, 1, MaxEmbedPlayers) :
     \A i, j \in 1..Len(cs) : i # j => cs[i].userId # cs[j].userId}

InitEmbed ==
  /\ call \in UNION {{[op |-> "renderLeaderboard", game |-> g, cursor |-> c,
                       commands |-> cs] :
                         c \in {NullStr, "1001"}, cs \in EmbedCommands(g)} :
                       g \in {"MARVEL_RIVALS", "DEADLOCK"}}
  /\ ret = [done |-> FALSE, rendered |-> NullStr]
  /\ legacyDate = NullStr
  /\ SyncIdle

\* The commands are parsed and the message is rendered from the records.
CallRenderLeaderboard ==
  /\ ~ret.done
  /\ ret.rendered = NullStr
  /\ \E ps \in {[i \in 1..Len(call.commands) |-> parseMessage(call.commands[i].content)]} :
       ret' = [done |-> FALSE, players |-> ps,
               rendered |-> renderLeaderboard(GameName(call.game), ps, call.cursor,
                                              call.game, DefaultMaxPlayers,
                                              CycleTime, CycleTimeUtc)]
  /\ CallIdle

\* The whole message is decoded, and the data block renderLeaderboard put
\* into it is decoded alone.
CallDecodeEmbedded ==
  /\ ~ret.done
  /\ ret.rendered # NullStr
  /\ ret' = [ret EXCEPT !.done = TRUE] @@
            [whole |-> decodeState(ret.rendered),
             block |-> decodeState(encodeState(call.cursor, ret.players, call.game))]
  /\ CallIdle

SpecEmbed == InitEmbed /\ [][CallRenderLeaderboard \/ CallDecodeEmbedded]_vars

\* C23: decodeState of the complete message renderLeaderboard builds from
\* parsed players returns the same state as decodeState of its data block
\* alone, whatever labels the human-readable part shows.
C23_EmbeddedBlobDecoding ==
  ret.done => ret.whole = ret.block

-----------------------------------------------------------------------------
(* Specification SpecKey: calls of getRankSortValue on two valid ranks of a
   game *)

\* The valid ranks of a game: the name at each 0-based index of the rank
\* list with each tier of the game.
ValidRanksOf(game) ==
  {[index |-> i - 1, rank |-> RanksOf(game)[i], tier |-> t] :
     i \in DOMAIN RanksOf(game), t \in 1..MaxTierOf(game)}

InitKey ==
  /\ call \in UNION {{[op |-> "getRankSortValue", game |-> g, a |-> a, b |-> b] :
                         a \in ValidRanksOf(g), b \in ValidRanksOf(g)} :
                       g \in AllGames}
  /\ ret = [done |-> FALSE]
  /\ legacyDate = NullStr
  /\ SyncIdle

CallGetRankSortValue ==
  /\ ~ret.done
  /\ ret' = [done |-> TRUE,
             keyA |-> getRankSortValue([rank |-> call.a.rank, tier |-> call.a.tier],
                                       RanksOf(call.game), MaxTierOf(call.game)),
             keyB |-> getRankSortValue([rank |-> call.b.rank, tier |-> call.b.tier],
                                       RanksOf(call.game), MaxTierOf(call.game))]
  /\ CallIdle

SpecKey == InitKey /\ [][CallGetRankSortValue]_vars

\* C24: for a rank whose name is at index i of the game's rank list and whose
\* tier t is within 1..maxTier, getRankSortValue returns
\* i * maxTier + (maxTier - t + 1); of two valid ranks of a game with
\* different names the one later in the list has the strictly larger key
\* whatever the tiers, and within one name the smaller tier number has the
\* larger key.
C24_SortKeyFormula ==
  ret.done =>
    LET maxTier == MaxTierOf(call.game)
    IN  /\ ret.keyA = call.a.index * maxTier + (maxTier - call.a.tier + 1)
        /\ ret.keyB = call.b.index * maxTier + (maxTier - call.b.tier + 1)
        /\ call.a.index < call.b.index => ret.keyA < ret.keyB
        /\ (call.a.index = call.b.index /\ call.a.tier < call.b.tier) => ret.keyA > ret.keyB

\* C24 witness: the best tier of Diamond and the worst tier of Grandmaster,
\* the next name of the Marvel Rivals list, have the keys 15 and 16.
C24_Witness ==
  /\ ret.done
  /\ call.game = "MARVEL_RIVALS"
  /\ call.a = [index |-> 4, rank |-> "Diamond", tier |-> 1]
  /\ call.b = [index |-> 5, rank |-> "Grandmaster", tier |-> MaxTierMR]
  /\ ret.keyA = 15
  /\ ret.keyB = 16

=============================================================================
